---- MODULE Spec2Model ----
(***************************************************************************)
(* Terrain chunk streaming: ChunkManager (resident chunk table and         *)
(* required-set deltas), WorldManager (the per-frame coordinator, its      *)
(* settings-reset effect and its result continuations), useTerrainWorker   *)
(* (the pending-resolver map in front of the worker) and terrainWorker     *)
(* (the background generation context).                                    *)
(***************************************************************************)
EXTENDS Integers, Sequences, FiniteSets, TLC

\* ------------------------------------------------------------------------
\* Bounds of the model
\* ------------------------------------------------------------------------
\* observer chunk coordinates along x range over -MaxChunk..MaxChunk
MaxChunk == 1
\* number of settings changes in one behaviour
MaxResets == 1
\* number of worker messages in flight, requests and responses together
MaxInFlight == 2
\* largest renderDistance a ChunkManager is constructed with
MaxRenderDistance == 3
\* number of chunks registered in a ChunkManager that is driven directly
MaxResident == 2

\* ------------------------------------------------------------------------
\* Values
\* ------------------------------------------------------------------------
\* null / undefined
None == [null |-> TRUE]


\* chunk edge length used by the terrain controls
ChunkSize == 64

\* WorldGenerationSettings, reduced to the fields that decide the streaming
\* behaviour: seed, chunkSize and renderDistance restart the worker,
\* renderDistance sizes the required set, chunkSize maps positions to
\* chunks, and waterLevel stands for the fields that only reach the
\* generator.
MakeSettings(seed, waterLevel, renderDistance) ==
  [seed |-> seed, chunkSize |-> ChunkSize, waterLevel |-> waterLevel,
   renderDistance |-> renderDistance]

\* the settings the terrain controls are moved between
SettingsSet ==
  {MakeSettings("enhanced_world", 15, 1),
   MakeSettings("enhanced_world", 16, 1),
   MakeSettings("other_seed", 15, 1)}

\* the settings WorldManager is mounted with; renderDistance 1 makes the
\* required set the chunk under the observer
InitialSettings == MakeSettings("enhanced_world", 15, 1)

\* ------------------------------------------------------------------------
\* ChunkManager
\* ------------------------------------------------------------------------
\* `${coord.x},${coord.z}`: the key of a coordinate
chunkKey(coord) == <<coord.x, coord.z>>

\* a conversion that rounds toward zero
worldToChunkTruncating(st, worldPos) ==
  [x |-> IF worldPos.x < 0 THEN -((-worldPos.x) \div st.chunkSize)
         ELSE worldPos.x \div st.chunkSize,
   z |-> IF worldPos.z < 0 THEN -((-worldPos.z) \div st.chunkSize)
         ELSE worldPos.z \div st.chunkSize]

\* Math.floor(worldPos / chunkSize) on both axes
worldToChunk(st, worldPos) ==
  [x |-> worldPos.x \div st.chunkSize, z |-> worldPos.z \div st.chunkSize]

\* coord * chunkSize: the world origin of a chunk
chunkToWorld(st, coord) ==
  [x |-> coord.x * st.chunkSize, z |-> coord.z * st.chunkSize]

\* Math.floor(renderDistance / 2)
radius(st) == st.renderDistance \div 2

\* the nested loops of getRequiredChunks: x outer, z inner, both inclusive
getRequiredChunks(st, pc) ==
  LET r == radius(st)
      n == 2 * r + 1
  IN [i \in 1..(n * n) |->
        [x |-> pc.x - r + ((i - 1) \div n), z |-> pc.z - r + ((i - 1) % n)]]

SeqRange(s) == {s[i] : i \in 1..Len(s)}

\* updatePlayerPosition with the required set taken around the stored player
\* chunk instead of the new one
updatePlayerPositionStale(st, oldPlayerChunk, table, worldPosition) ==
  LET newPlayerChunk == worldToChunk(st, worldPosition)
      playerChunkChanged ==
        newPlayerChunk.x # oldPlayerChunk.x \/ newPlayerChunk.z # oldPlayerChunk.z
      requiredChunks == getRequiredChunks(st, oldPlayerChunk)
      requiredKeys == {chunkKey(c) : c \in SeqRange(requiredChunks)}
      notResident(coord) == chunkKey(coord) \notin DOMAIN table
  IN [chunksToLoad |-> SelectSeq(requiredChunks, notResident),
      chunksToUnload |-> {key \in DOMAIN table : key \notin requiredKeys},
      playerChunkChanged |-> playerChunkChanged,
      playerChunk |-> IF playerChunkChanged THEN newPlayerChunk ELSE oldPlayerChunk,
      visibleChunks |-> requiredKeys,
      loadedChunks |-> table]

\* updatePlayerPosition that drops the chunks it reports for unloading
updatePlayerPositionUnloading(st, oldPlayerChunk, table, worldPosition) ==
  LET newPlayerChunk == worldToChunk(st, worldPosition)
      playerChunkChanged ==
        newPlayerChunk.x # oldPlayerChunk.x \/ newPlayerChunk.z # oldPlayerChunk.z
      requiredChunks == getRequiredChunks(st, newPlayerChunk)
      requiredKeys == {chunkKey(c) : c \in SeqRange(requiredChunks)}
      notResident(coord) == chunkKey(coord) \notin DOMAIN table
  IN [chunksToLoad |-> SelectSeq(requiredChunks, notResident),
      chunksToUnload |-> {key \in DOMAIN table : key \notin requiredKeys},
      playerChunkChanged |-> playerChunkChanged,
      playerChunk |-> IF playerChunkChanged THEN newPlayerChunk ELSE oldPlayerChunk,
      visibleChunks |-> requiredKeys,
      loadedChunks |-> [k \in DOMAIN table \cap requiredKeys |-> table[k]]]

\* the value updatePlayerPosition returns, and the worldState it leaves
updatePlayerPosition(st, oldPlayerChunk, table, worldPosition) ==
  LET newPlayerChunk == worldToChunk(st, worldPosition)
      playerChunkChanged ==
        newPlayerChunk.x # oldPlayerChunk.x \/ newPlayerChunk.z # oldPlayerChunk.z
      requiredChunks == getRequiredChunks(st, newPlayerChunk)
      requiredKeys == {chunkKey(c) : c \in SeqRange(requiredChunks)}
      notResident(coord) == chunkKey(coord) \notin DOMAIN table
  IN [chunksToLoad |-> SelectSeq(requiredChunks, notResident),
      chunksToUnload |-> {key \in DOMAIN table : key \notin requiredKeys},
      playerChunkChanged |-> playerChunkChanged,
      playerChunk |-> IF playerChunkChanged THEN newPlayerChunk ELSE oldPlayerChunk,
      visibleChunks |-> requiredKeys,
      loadedChunks |-> table]

\* the WorldChunk generateChunk registers
NewChunk(st, coordinate) ==
  [coordinate |-> coordinate, position |-> chunkToWorld(st, coordinate),
   isLoaded |-> FALSE]

\* a generateChunk that builds the chunk and does not store it
generateChunkUnregistered(st, table, coordinate) == table

\* loadedChunks.set(key, chunk)
generateChunk(st, table, coordinate) ==
  [k \in DOMAIN table \cup {chunkKey(coordinate)} |->
     IF k = chunkKey(coordinate) THEN NewChunk(st, coordinate) ELSE table[k]]

\* loadedChunks.delete(key)
unloadChunk(table, key) == [k \in DOMAIN table \ {key} |-> table[k]]



\* ------------------------------------------------------------------------
\* WorldGenerator: the height function
\* ------------------------------------------------------------------------
\* Heights, positions, amplitudes and noise values are fixed-point numbers in
\* thousandths; scales are in ten-thousandths, persistences in hundredths and
\* lacunarities in tenths.
One == 1000

\* a * b of two fixed-point numbers
Mul(a, b) == (a * b) \div One

\* the settings a WorldGenerator is constructed with, in the units of the
\* terrain controls; the scales are those the controls start with
GeneratorSettings(seed, meshResolution, waterLevel, continentAmplitude, mountainAmplitude, detailAmplitude) ==
  [seed |-> seed, chunkSize |-> ChunkSize, meshResolution |-> meshResolution,
   waterLevel |-> waterLevel,
   continentScale |-> 8, continentAmplitude |-> continentAmplitude,
   mountainScale |-> 60, mountainAmplitude |-> mountainAmplitude,
   detailScale |-> 300, detailAmplitude |-> detailAmplitude,
   warpScale |-> 100, warpStrength |-> 15]

\* the suffixes initializeNoiseGenerators seeds its twelve noise functions with
Layers ==
  <<"continent", "mountain", "hill", "detail", "warpX", "warpZ", "ridge",
    "valley", "erosion", "underwater", "plains", "gentle">>

\* the values a noise function takes in the model: the ends and the middle of
\* its range [-1, 1]
NoiseValues == {-One, 0, One}

\* alea(seed + '_' + layer): the generator state a seed string and a suffix
\* hash to
alea(seed, layer) ==
  LET s == CASE seed = "enhanced_world" -> 1
             [] seed = "other_seed" -> 2
             [] OTHER -> 3
      l == CHOOSE i \in 1..Len(Layers) : Layers[i] = layer
  IN 31 * s + l

\* createNoise2D(prng)(x * scale, z * scale): a noise function is fixed by its
\* generator state and pure in its sample point
createNoise2D(prng, x, z, scale) ==
  LET hx == x % 1009
      hz == z % 1013
      hs == scale % 1019
      h == (prng * 7 + hx * hx * 3 + hx * 13 + hz * hz * 5 + hz * 17
            + hx * hz * 11 + hs * 19 + hs * hx + hs * hz) % 19
  IN ((h % 3) - 1) * One

\* The noise functions of a generator: those of a seed, or a sample of them,
\* the value each function takes at the points one height evaluation reads.
SeededField(seed) == [seeded |-> TRUE, seed |-> seed]
SampleField(values) == [seeded |-> FALSE, values |-> values]

\* a noise function given by the value it takes at each octave's scale of
\* one fractal call
OctaveField(values) == [seeded |-> FALSE, octaves |-> values]

\* this.<layer>Noise(x * scale, z * scale)
noiseFunc(field, layer, x, z, scale) ==
  IF field.seeded THEN createNoise2D(alea(field.seed, layer), x, z, scale)
  ELSE IF "octaves" \in DOMAIN field THEN field.octaves[scale]
  ELSE field.values[layer]

RECURSIVE fractalLoop(_, _, _, _, _, _, _, _, _, _, _)
\* the octave loop of fractal, from octave i on
fractalLoop(field, x, z, layer, i, octaves, persistence, lacunarity, value, currentAmplitude, acc) ==
  IF i >= octaves THEN [value |-> value, maxValue |-> acc.maxValue]
  ELSE fractalLoop(field, x, z, layer, i + 1, octaves, persistence, lacunarity,
         value + Mul(noiseFunc(field, layer, x, z, acc.currentScale), currentAmplitude),
         (currentAmplitude * persistence) \div 100,
         [maxValue |-> acc.maxValue + currentAmplitude,
          currentScale |-> (acc.currentScale * lacunarity) \div 10])

\* value / maxValue of two fixed-point numbers of either sign
Quot(value, maxValue) ==
  IF maxValue > 0 THEN (value * One) \div maxValue
  ELSE ((-value) * One) \div (-maxValue)

\* fractal: the amplitude-weighted mean of the octaves' noise values
fractal(field, x, z, layer, octaves, scale, amplitude, persistence, lacunarity) ==
  LET r == fractalLoop(field, x, z, layer, 0, octaves, persistence, lacunarity,
                       0, amplitude, [maxValue |-> 0, currentScale |-> scale])
  IN Quot(r.value, r.maxValue)

Abs(n) == IF n < 0 THEN -n ELSE n

\* Math.pow(base, exponent) on the bases 1 - |n| takes for n in NoiseValues:
\* 0 and 1, which every positive exponent leaves alone
pow(base, exponent) == IF base = One THEN One ELSE 0

\* ridged: (1 - |n|) ^ sharpness * amplitude
ridged(field, x, z, layer, scale, amplitude, sharpness) ==
  LET n == noiseFunc(field, layer, x, z, scale)
  IN Mul(pow(One - Abs(n), sharpness), amplitude)

\* billow: |n| * amplitude
billow(field, x, z, layer, scale, amplitude) ==
  Mul(Abs(noiseFunc(field, layer, x, z, scale)), amplitude)

\* warp: the sample point moved by two fractals of warp noise
warp(st, field, x, z) ==
  LET warpStrength == st.warpStrength * One
      offsetX == fractal(field, x, z, "warpX", 3, st.warpScale, Mul(warpStrength, 800), 50, 21)
      offsetZ == fractal(field, x, z, "warpZ", 3, st.warpScale, Mul(warpStrength, 800), 50, 21)
  IN <<x + offsetX, z + offsetZ>>

\* Math.max(0, Math.min(1, (t - a) / (b - a)))
Clamp01(a, b, t) ==
  LET q == IF b > a THEN ((t - a) * One) \div (b - a)
           ELSE ((a - t) * One) \div (a - b)
  IN IF q < 0 THEN 0 ELSE IF q > One THEN One ELSE q

\* smootherstep: x * x * x * (x * (x * 6 - 15) + 10) of the clamped ratio
smootherstep(a, b, t) ==
  LET x == Clamp01(a, b, t)
  IN Mul(Mul(Mul(x, x), x), Mul(x, 6 * x - 15 * One) + 10 * One)

\* getHeightAt, 1: the continental base at the warped point
continentBase(st, field, wx, wz) ==
  LET continentAmp == st.continentAmplitude * 1500
  IN fractal(field, wx, wz, "continent", 6, st.continentScale, continentAmp, 55, 22)

\* getHeightAt, 3: combinedMountains * mountainMask, the mountain term of the
\* height
maskedMountains(st, field, wx, wz, continent) ==
  LET mountainScale == st.mountainScale
      mountainAmp == st.mountainAmplitude * 3000
      primaryMountains == ridged(field, wx, wz, "mountain", mountainScale, mountainAmp, 2000)
      secondaryRidges ==
        ridged(field, wx + 100 * One, wz + 50 * One, "ridge", (mountainScale * 13) \div 10,
               Mul(mountainAmp, 400), 1600)
      tertiaryRidges ==
        ridged(field, wx - 50 * One, wz + 150 * One, "mountain", (mountainScale * 7) \div 10,
               Mul(mountainAmp, 600), 1400)
      erosion == fractal(field, wx, wz, "erosion", 5, mountainScale * 4, 18 * One, 45, 21)
      microErosion == fractal(field, wx, wz, "detail", 3, mountainScale * 8, 8 * One, 35, 25)
      combinedMountains ==
        primaryMountains + secondaryRidges + tertiaryRidges - erosion - microErosion
      mountainMask == smootherstep(-100, 600, continent)
  IN Mul(combinedMountains, mountainMask)

\* getHeightAt, 6: the mask the valleys are multiplied with
valleyMask(continent, mountains) ==
  Mul(smootherstep(-200, 400, continent), smootherstep(0, 15 * One, Abs(mountains)))

\* getHeightAt: the layers of the height function, summed onto the water level
getHeightAt(st, field, worldX, worldZ) ==
  LET w == warp(st, field, worldX, worldZ)
      wx == w[1]
      wz == w[2]
      \* 1. continental base
      continent == continentBase(st, field, wx, wz)
      \* 2. underwater terrain
      underwaterBase == fractal(field, wx, wz, "underwater", 5, 30, -35 * One, 60, 21)
      underwaterRidges == ridged(field, wx, wz, "underwater", 80, -20 * One, 1200)
      underwaterDetail == fractal(field, wx, wz, "detail", 4, 250, -12 * One, 50, 20)
      underwaterCanyons == billow(field, wx, wz, "valley", 40, -25 * One)
      combinedUnderwater ==
        underwaterBase + underwaterRidges + underwaterDetail + underwaterCanyons
      underwaterMask == smootherstep(200, -500, continent)
      underwaterTerrain == Mul(combinedUnderwater, underwaterMask)
      \* 3. mountains
      mountains == maskedMountains(st, field, wx, wz, continent)
      \* 4. coastal flattening
      distanceFromWater == IF continent + 200 > 0 THEN continent + 200 ELSE 0
      coastalFlattening == smootherstep(400, 0, distanceFromWater) * (-6)
      \* 5. plains layer
      plainsBase == fractal(field, wx, wz, "plains", 4, 40, 8 * One, 60, 20)
      gentleUndulation == fractal(field, wx, wz, "gentle", 3, 80, 4 * One, 50, 22)
      plainsLayer == Mul(plainsBase + gentleUndulation, 900)
      \* 6. valleys
      valleyBase == billow(field, wx, wz, "valley", 60, -18 * One)
      riverValleys == billow(field, wx + 200 * One, wz - 100 * One, "valley", 150, -12 * One)
      combinedValleys == valleyBase + riverValleys
      valleys == Mul(combinedValleys, valleyMask(continent, mountains))
      \* 7. hills
      largeHills == fractal(field, wx, wz, "hill", 4, 60, 25 * One, 50, 21)
      mediumHills == fractal(field, wx + 75 * One, wz - 25 * One, "hill", 3, 120, 15 * One, 60, 20)
      rollingHills == fractal(field, wx - 30 * One, wz + 80 * One, "detail", 2, 250, 8 * One, 50, 22)
      combinedHills == largeHills + mediumHills + rollingHills
      hillMask == smootherstep(-400, 300, continent)
      \* 8. surface smoothing
      smoothingLayer == fractal(field, wx, wz, "gentle", 6, 200, 3500, 40, 21)
      \* 9. surface details
      detailScale == st.detailScale
      detailAmp == st.detailAmplitude * 1200
      surfaceDetails == fractal(field, wx, wz, "detail", 5, detailScale, detailAmp, 45, 24)
      microDetails ==
        fractal(field, wx, wz, "detail", 3, detailScale * 3, Mul(detailAmp, 300), 40, 26)
      \* 10. plateaus
      plateauBase == fractal(field, wx, wz, "continent", 3, 40, 18 * One, 70, 20)
      plateauMask == smootherstep(300, 700, continent)
      plateaus == Mul(IF plateauBase > 0 THEN plateauBase ELSE 0, plateauMask)
  IN st.waterLevel * One
     + continent
     + underwaterTerrain
     + coastalFlattening
     + mountains
     + valleys
     + Mul(combinedHills, hillMask)
     + plainsLayer
     + plateaus
     + smoothingLayer
     + surfaceDetails + microDetails

\* ------------------------------------------------------------------------
\* WorldGenerator: the chunk mesh
\* ------------------------------------------------------------------------
\* const borderSize = 2
borderSize == 2

\* the unit of the values of seededRandom
Million == 1000000

\* Math.sin(seed) * 10000 minus its floor, in millionths, for the seeds the
\* chunks (0..1, 0..1) draw
seededRandomTable ==
  0 :> 0 @@ 1 :> 709848 @@ 2 :> 974268 @@ 3 :> 200080 @@ 4 :> 975046 @@ 10 :> 788891
  @@ 11 :> 97934 @@ 12 :> 270819 @@ 13 :> 670368 @@ 14 :> 73556 @@ 20 :> 452507
  @@ 21 :> 556385 @@ 22 :> 486907 @@ 23 :> 795958 @@ 24 :> 216379 @@ 30 :> 683759
  @@ 31 :> 623546 @@ 32 :> 266812 @@ 33 :> 118601 @@ 34 :> 826861 @@ 40 :> 131604
  @@ 41 :> 773311 @@ 42 :> 784520 @@ 43 :> 252573 @@ 44 :> 19251 @@ 50 :> 251462
  @@ 51 :> 291758 @@ 52 :> 275920 @@ 53 :> 251501 @@ 54 :> 109511 @@ 60 :> 893788
  @@ 61 :> 822299 @@ 62 :> 193033 @@ 63 :> 557003 @@ 64 :> 260381 @@ 70 :> 906815
  @@ 71 :> 546532 @@ 72 :> 233627 @@ 73 :> 280431 @@ 74 :> 537395 @@ 19349663 :> 753037
  @@ 19349664 :> 497428 @@ 19349665 :> 756090 @@ 19349666 :> 656461 @@ 19349667 :> 734097
  @@ 19349673 :> 99428 @@ 19349674 :> 568082 @@ 19349675 :> 255772 @@ 19349676 :> 504635
  @@ 19349677 :> 329456 @@ 19349683 :> 316159 @@ 19349684 :> 922532 @@ 19349685 :> 403043
  @@ 19349686 :> 442542 @@ 19349687 :> 327749 @@ 19349693 :> 431194 @@ 19349694 :> 191500
  @@ 19349695 :> 257102 @@ 19349696 :> 773500 @@ 19349697 :> 401649 @@ 19349703 :> 834853
  @@ 19349704 :> 860020 @@ 19349705 :> 399463 @@ 19349706 :> 139128 @@ 19349707 :> 514710
  @@ 19349713 :> 838466 @@ 19349714 :> 224631 @@ 19349715 :> 23350 @@ 19349716 :> 661309
  @@ 19349717 :> 900085 @@ 19349723 :> 560149 @@ 19349724 :> 345057 @@ 19349725 :> 445727
  @@ 19349726 :> 361307 @@ 19349727 :> 627127 @@ 19349733 :> 370748 @@ 19349734 :> 199762
  @@ 19349735 :> 315433 @@ 19349736 :> 871441 @@ 19349737 :> 762843 @@ 73856093 :> 160695
  @@ 73856094 :> 370118 @@ 73856095 :> 390686 @@ 73856096 :> 799726 @@ 73856097 :> 911011
  @@ 73856103 :> 342403 @@ 73856104 :> 798897 @@ 73856105 :> 60072 @@ 73856106 :> 422908
  @@ 73856107 :> 65066 @@ 73856113 :> 283881 @@ 73856114 :> 425137 @@ 73856115 :> 938213
  @@ 73856116 :> 567785 @@ 73856117 :> 52881 @@ 73856123 :> 28578 @@ 73856124 :> 399329
  @@ 73856125 :> 799160 @@ 73856126 :> 235590 @@ 73856127 :> 823029 @@ 73856133 :> 784074
  @@ 73856134 :> 32348 @@ 73856135 :> 746370 @@ 73856136 :> 577529 @@ 73856137 :> 193111
  @@ 73856143 :> 169933 @@ 73856144 :> 826138 @@ 73856145 :> 458787 @@ 73856146 :> 160552
  @@ 73856147 :> 625788 @@ 73856153 :> 269608 @@ 73856154 :> 92758 @@ 73856155 :> 331821
  @@ 73856156 :> 266427 @@ 73856157 :> 42453 @@ 73856163 :> 737114 @@ 73856164 :> 486222
  @@ 73856165 :> 528486 @@ 73856166 :> 456882 @@ 73856167 :> 790950 @@ 88192194 :> 925784
  @@ 88192195 :> 993112 @@ 88192196 :> 63487 @@ 88192197 :> 412717 @@ 88192198 :> 90741
  @@ 88192204 :> 304081 @@ 88192205 :> 365065 @@ 88192206 :> 791235 @@ 88192207 :> 945735
  @@ 88192208 :> 942860 @@ 88192214 :> 633124 @@ 88192215 :> 54772 @@ 88192216 :> 383046
  @@ 88192217 :> 19626 @@ 88192218 :> 432377 @@ 88192224 :> 383213 @@ 88192225 :> 785381
  @@ 88192226 :> 399737 @@ 88192227 :> 668492 @@ 88192228 :> 377486 @@ 88192234 :> 950953
  @@ 88192235 :> 134163 @@ 88192236 :> 474227 @@ 88192237 :> 187589 @@ 88192238 :> 839503
  @@ 88192244 :> 967872 @@ 88192245 :> 726617 @@ 88192246 :> 720822 @@ 88192247 :> 94644
  @@ 88192248 :> 137369 @@ 88192254 :> 516157 @@ 88192255 :> 848039 @@ 88192256 :> 975236
  @@ 88192257 :> 860790 @@ 88192258 :> 160876 @@ 88192264 :> 837772 @@ 88192265 :> 158463
  @@ 88192266 :> 728543 @@ 88192267 :> 699692 @@ 88192268 :> 688270

\* seededRandom(seed)
seededRandom(seed) == seededRandomTable[seed]

RECURSIVE Xor(_, _)
\* a ^ b on non-negative 32-bit operands
Xor(a, b) ==
  IF a = 0 THEN b
  ELSE IF b = 0 THEN a
  ELSE (((a % 2) + (b % 2)) % 2) + 2 * Xor(a \div 2, b \div 2)

\* coordinate.x * 73856093 ^ coordinate.z * 19349663
prngSeed(coordinate) == Xor(coordinate.x * 73856093, coordinate.z * 19349663)

RECURSIVE sqrtLoop(_, _, _)
\* the largest r in lo..hi with r * r <= v
sqrtLoop(v, lo, hi) ==
  IF lo >= hi THEN lo
  ELSE LET mid == (lo + hi + 1) \div 2
       IN IF mid * mid <= v THEN sqrtLoop(v, mid, hi) ELSE sqrtLoop(v, lo, mid - 1)

\* Math.sqrt of a fixed-point number: v is in millionths, the root in
\* thousandths
sqrt(v) == sqrtLoop(v, 0, 46340)

\* the world sample point of grid column (or row) x of a chunk whose origin
\* is world: world + (x / meshResolution) * chunkSize
samplePoint(st, world, x) == world * One + (x * st.chunkSize * One) \div st.meshResolution

RECURSIVE Tabulate(_, _)
\* the array f[1], ..., f[n], every element computed once
Tabulate(f, n) == IF n = 0 THEN <<>> ELSE Append(Tabulate(f, n - 1), f[n])

\* array[i][j] of an array of arrays, indexed from 0
at(array, i, j) == array[i + 1][j + 1]

\* a height map that is sampled at the chunk's own grid points only, the
\* border repeating the edge
heightMapClamped(st, field, coordinate) ==
  LET n == st.meshResolution + 1 + 2 * borderSize
      worldX == coordinate.x * st.chunkSize
      worldZ == coordinate.z * st.chunkSize
      clamp(i) == IF i < 0 THEN 0 ELSE IF i > st.meshResolution THEN st.meshResolution ELSE i
  IN Tabulate([i \in 1..n |->
       Tabulate([j \in 1..n |->
         getHeightAt(st, field, samplePoint(st, worldX, clamp(j - 1 - borderSize)),
                     samplePoint(st, worldZ, clamp(i - 1 - borderSize)))], n)], n)

\* a height map that is sampled at chunk-local positions
heightMapLocal(st, field, coordinate) ==
  LET n == st.meshResolution + 1 + 2 * borderSize
  IN Tabulate([i \in 1..n |->
       Tabulate([j \in 1..n |->
         getHeightAt(st, field, samplePoint(st, 0, j - 1 - borderSize),
                     samplePoint(st, 0, i - 1 - borderSize))], n)], n)

\* the height map of generateChunk, border included: heightMap[z + borderSize]
\* [x + borderSize] for x and z in -borderSize .. resolution + borderSize - 1
heightMap(st, field, coordinate) ==
  LET n == st.meshResolution + 1 + 2 * borderSize
      worldX == coordinate.x * st.chunkSize
      worldZ == coordinate.z * st.chunkSize
  IN Tabulate([i \in 1..n |->
       Tabulate([j \in 1..n |->
         getHeightAt(st, field, samplePoint(st, worldX, j - 1 - borderSize),
                     samplePoint(st, worldZ, i - 1 - borderSize))], n)], n)

\* a candidate whose position draws are keyed by the generator's seed as well
candidateSeeded(st, hm, coordinate, i) ==
  LET seed == prngSeed(coordinate)
      j == (i + (alea(st.seed, "detail") % 2)) % 8
      rx == 5 + (seededRandom(seed + j * 10) * (st.chunkSize - 10)) \div Million
      rz == 5 + (seededRandom(seed + j * 10 + 1) * (st.chunkSize - 10)) \div Million
      gridX == (rx * st.meshResolution) \div st.chunkSize
      gridZ == (rz * st.meshResolution) \div st.chunkSize
  IN [rx |-> rx, rz |-> rz, terrainHeight |-> at(hm, gridZ + borderSize, gridX + borderSize)]

\* candidate i of the scatter loop: its position in the chunk and the
\* terrain height of its grid cell
candidate(st, hm, coordinate, i) ==
  LET seed == prngSeed(coordinate)
      rx == 5 + (seededRandom(seed + i * 10) * (st.chunkSize - 10)) \div Million
      rz == 5 + (seededRandom(seed + i * 10 + 1) * (st.chunkSize - 10)) \div Million
      gridX == (rx * st.meshResolution) \div st.chunkSize
      gridZ == (rz * st.meshResolution) \div st.chunkSize
  IN [rx |-> rx, rz |-> rz, terrainHeight |-> at(hm, gridZ + borderSize, gridX + borderSize)]

\* the test a candidate passes to be given an object
accepted(st, c) == c.terrainHeight > (st.waterLevel + 3) * One

RECURSIVE scatterLoopTwoKinds(_, _, _, _, _)
\* a scatter loop that gives every accepted candidate a cube or a ball
scatterLoopTwoKinds(st, hm, coordinate, i, acc) ==
  IF i >= 8 THEN acc
  ELSE
    LET seed == prngSeed(coordinate)
        c == candidate(st, hm, coordinate, i)
        objectRandom == seededRandom(seed + i * 10 + 2)
        size == 600 + (seededRandom(seed + i * 10 + 3) * 28) \div 10000
        ballRadius == 300 + (seededRandom(seed + i * 10 + 4) * 8) \div 10000
        next ==
          IF ~accepted(st, c) THEN acc
          ELSE IF objectRandom > Million \div 2
          THEN [acc EXCEPT !.cubes = Append(@,
                  [x |-> c.rx * One, y |-> c.terrainHeight + size \div 2,
                   z |-> c.rz * One, size |-> size])]
          ELSE [acc EXCEPT !.balls = Append(@,
                  [x |-> c.rx * One, y |-> c.terrainHeight + ballRadius + One \div 2,
                   z |-> c.rz * One, radius |-> ballRadius])]
    IN CHOOSE result \in {scatterLoopTwoKinds(st, hm, coordinate, i + 1, n) : n \in {next}} : TRUE

RECURSIVE scatterLoop(_, _, _, _, _)
\* the scatter loop from candidate i on; acc holds cubes and balls so far
scatterLoop(st, hm, coordinate, i, acc) ==
  IF i >= 8 THEN acc
  ELSE
    LET seed == prngSeed(coordinate)
        c == candidate(st, hm, coordinate, i)
        objectRandom == seededRandom(seed + i * 10 + 2)
        size == 600 + (seededRandom(seed + i * 10 + 3) * 28) \div 10000
        ballRadius == 300 + (seededRandom(seed + i * 10 + 4) * 8) \div 10000
        next ==
          IF ~accepted(st, c) THEN acc
          ELSE IF objectRandom > Million \div 2
          THEN [acc EXCEPT !.cubes = Append(@,
                  [x |-> c.rx * One, y |-> c.terrainHeight + size \div 2,
                   z |-> c.rz * One, size |-> size])]
          ELSE IF objectRandom > (3 * Million) \div 10
          THEN [acc EXCEPT !.balls = Append(@,
                  [x |-> c.rx * One, y |-> c.terrainHeight + ballRadius + One \div 2,
                   z |-> c.rz * One, radius |-> ballRadius])]
          ELSE acc
    IN CHOOSE result \in {scatterLoop(st, hm, coordinate, i + 1, n) : n \in {next}} : TRUE

\* the normal of vertex (x, z): central differences of the height map,
\* normalised
normalAt(st, hm, x, z) ==
  LET stepSize == (st.chunkSize * One) \div st.meshResolution
      hL == at(hm, z + borderSize, x + borderSize - 1)
      hR == at(hm, z + borderSize, x + borderSize + 1)
      hD == at(hm, z + borderSize - 1, x + borderSize)
      hU == at(hm, z + borderSize + 1, x + borderSize)
      nx == ((hL - hR) * One) \div (2 * stepSize)
      ny == One
      nz == ((hD - hU) * One) \div (2 * stepSize)
      length == sqrt(nx * nx + ny * ny + nz * nz)
  IN <<(nx * One) \div length, (ny * One) \div length, (nz * One) \div length>>

\* WorldGenerator.generateChunk: the TerrainData of a coordinate. The typed
\* arrays hold their elements in push order; thousandths are coarser than the
\* precision of a 32-bit float at these magnitudes.
buildTerrainData(st, hm, coordinate) ==
  LET meshResolution == st.meshResolution
      resolution == meshResolution + 1
      scatter == scatterLoop(st, hm, coordinate, 0, [cubes |-> <<>>, balls |-> <<>>])
  IN [vertices |->
        [k \in 1..(3 * resolution * resolution) |->
           LET v == (k - 1) \div 3
               x == v % resolution
               z == v \div resolution
           IN CASE (k - 1) % 3 = 0 -> (x * st.chunkSize * One) \div meshResolution
                [] (k - 1) % 3 = 1 -> at(hm, z + borderSize, x + borderSize)
                [] OTHER -> (z * st.chunkSize * One) \div meshResolution],
      indices |->
        [k \in 1..(6 * meshResolution * meshResolution) |->
           LET cell == (k - 1) \div 6
               x == cell % meshResolution
               z == cell \div meshResolution
               topLeft == z * resolution + x
               topRight == topLeft + 1
               bottomLeft == (z + 1) * resolution + x
               bottomRight == bottomLeft + 1
           IN <<topLeft, bottomLeft, topRight, topRight, bottomLeft, bottomRight>>
                [((k - 1) % 6) + 1]],
      normals |->
        [k \in 1..(3 * resolution * resolution) |->
           LET v == (k - 1) \div 3
           IN normalAt(st, hm, v % resolution, v \div resolution)[((k - 1) % 3) + 1]],
      heights |->
        [k \in 1..(resolution * resolution) |->
           at(hm, ((k - 1) \div resolution) + borderSize, ((k - 1) % resolution) + borderSize)],
      cubes |-> scatter.cubes,
      balls |-> scatter.balls]

\* WorldGenerator.generateChunk: the height map is computed once and the
\* arrays are filled from it
WorldGenerator_generateChunk(st, field, coordinate) ==
  CHOOSE terrainData \in {buildTerrainData(st, hm, coordinate) :
                            hm \in {heightMap(st, field, coordinate)}} : TRUE

\* ------------------------------------------------------------------------
\* Height sampling
\* ------------------------------------------------------------------------
\* Math.round of a fixed-point number: the integer nearest to it, halves up
round(q) == (q + One \div 2) \div One

RECURSIVE MaxOf(_)
MaxOf(S) ==
  LET e == CHOOSE x \in S : TRUE
  IN IF S = {e} THEN e
     ELSE LET rest == MaxOf(S \ {e}) IN IF e > rest THEN e ELSE rest

\* geometry.boundingBox.max.x after computeBoundingBox: the largest x of the
\* position attribute
boundingBoxMaxX(terrainData) ==
  MaxOf({terrainData.vertices[k] : k \in {i \in 1..Len(terrainData.vertices) : i % 3 = 1}})

\* a number where null is possible too
Number(n) == [null |-> FALSE, value |-> n]

\* sampleTerrainHeightAt: the height of the grid vertex nearest to a world
\* position, or null; a chunk has its mesh from the moment it is marked loaded
sampleTerrainHeightAt(chunk, terrainData, worldX, worldZ) ==
  LET vertices == terrainData.vertices
      res == round(sqrt((Len(vertices) \div 3) * Million))
      localX == worldX - chunk.position.x * One
      localZ == worldZ - chunk.position.z * One
      gridSize == res - 1
      step == IF chunk.isLoaded THEN boundingBoxMaxX(terrainData) \div gridSize ELSE One
      clamp(n) == IF n < 0 THEN 0 ELSE IF n > gridSize THEN gridSize ELSE n
      normX == clamp(round(((localX * One) \div (step * gridSize)) * gridSize))
      normZ == clamp(round(((localZ * One) \div (step * gridSize)) * gridSize))
      idx == normZ * res + normX
  IN IF res < 2 THEN None
     ELSE IF idx * 3 + 1 < Len(vertices) THEN Number(vertices[idx * 3 + 2])
     ELSE None

\* getTerrainDataAt: chunk and terrain of the chunk a world position is in,
\* or null
getTerrainDataAt(st, table, terrainData, worldX, worldZ) ==
  LET key == <<worldX \div (st.chunkSize * One), worldZ \div (st.chunkSize * One)>>
  IN IF key \in DOMAIN table /\ key \in DOMAIN terrainData
     THEN [chunk |-> table[key], terrain |-> terrainData[key]]
     ELSE None

\* ------------------------------------------------------------------------
\* State
\* ------------------------------------------------------------------------
VARIABLES
  settings,           \* finalSettings of the latest render of WorldManager
  cmSettings,         \* ChunkManager.settings
  playerChunk,        \* ChunkManager.worldState.playerChunk
  loadedChunks,       \* ChunkManager.worldState.loadedChunks: key -> WorldChunk
  visibleChunks,      \* ChunkManager.worldState.visibleChunks
  lastUpdate,         \* arguments and result of a direct updatePlayerPosition call
  chunkTerrainData,   \* WorldManager.chunkTerrainData: key -> TerrainData
  loadingChunks,      \* WorldManager.loadingChunks
  loadedChunkCoords,  \* WorldManager.loadedChunkCoords
  ready,              \* WorldManager state `ready`
  isInitialized,      \* WorldManager state `isInitialized`
  playerPos,          \* playerRef.current.position, None while no player is mounted
  pending,            \* useTerrainWorker.pending: key -> resolver
  workerInbox,        \* messages posted to the worker, not yet handled
  workerOutbox,       \* messages posted by the worker, not yet handled
  generator,          \* terrainWorker `generator`: the settings it was built from
  lastSettings,       \* terrainWorker `lastSettings`
  resets              \* number of settings changes so far

cmVars == <<cmSettings, playerChunk, loadedChunks, visibleChunks>>
coordVars == <<chunkTerrainData, loadingChunks, loadedChunkCoords, ready, isInitialized>>
workerVars == <<workerInbox, workerOutbox, generator, lastSettings>>
vars == <<settings, cmVars, lastUpdate, coordVars, playerPos, pending, workerVars,
          resets>>

\* new Map()
EmptyMap == [k \in {} |-> None]

\* keys of a sequence of coordinates
KeysOf(coords) == {chunkKey(c) : c \in SeqRange(coords)}

\* map with the keys in ks removed
Without(map, ks) == [k \in DOMAIN map \ ks |-> map[k]]

\* map.set(key, value)
MapSet(map, key, value) ==
  [k \in DOMAIN map \cup {key} |-> IF k = key THEN value ELSE map[k]]

\* ------------------------------------------------------------------------
\* useTerrainWorker and terrainWorker
\* ------------------------------------------------------------------------
\* a serialisation that lists only the fields the worker effect depends on
JSONstringifyDeps(st) ==
  IF st = None THEN <<"null">>
  ELSE <<st.seed, st.chunkSize, st.renderDistance>>

\* JSON.stringify of a settings object (or of null): the field values in
\* key order
JSONstringify(st) ==
  IF st = None THEN <<"null">>
  ELSE <<st.seed, st.chunkSize, st.waterLevel, st.renderDistance>>

\* a rebuild test that looks at the seed only
NeedsRebuildSeedOnly(gen, last, requestSettings) ==
  gen = None \/ requestSettings.seed # last.seed

\* the worker's test for rebuilding its generator
NeedsRebuild(gen, last, requestSettings) ==
  gen = None \/ JSONstringify(requestSettings) # JSONstringify(last)

\* WorldGenerator.generateChunk as seen by the coordinator: the result is
\* determined by the settings the generator was built from and the coordinate
TerrainOf(gen, coordinate) == [coordinate |-> coordinate, settings |-> gen]

\* the effect dependencies of useTerrainWorker: a change of seed, chunkSize
\* or renderDistance terminates the worker and creates a new one
WorkerRestarts(old, new) ==
  \/ old.seed # new.seed
  \/ old.chunkSize # new.chunkSize
  \/ old.renderDistance # new.renderDistance

\* the messages requestChunk posts for a sequence of coordinates
RequestsFor(coords, st) ==
  [i \in 1..Len(coords) |-> [coordinate |-> coords[i], settings |-> st]]

\* pending.set(key, resolve) for every requested coordinate; every resolver
\* of a key runs the same continuation
PendingAfter(pend, coords) ==
  [k \in DOMAIN pend \cup KeysOf(coords) |-> TRUE]

\* a worker that takes the newest message first
onmessageNewestFirst ==
  /\ workerInbox # <<>>
  /\ LET msg == workerInbox[Len(workerInbox)]
         rebuild == NeedsRebuild(generator, lastSettings, msg.settings)
         gen == IF rebuild THEN msg.settings ELSE generator
     IN /\ generator' = gen
        /\ lastSettings' = (IF rebuild THEN msg.settings ELSE lastSettings)
        /\ workerOutbox' = Append(workerOutbox,
             [coordinate |-> msg.coordinate, terrain |-> TerrainOf(gen, msg.coordinate)])
  /\ workerInbox' = SubSeq(workerInbox, 1, Len(workerInbox) - 1)

\* self.onmessage of the worker: handles the oldest message
onmessage ==
  /\ workerInbox # <<>>
  /\ LET msg == Head(workerInbox)
         rebuild == NeedsRebuild(generator, lastSettings, msg.settings)
         gen == IF rebuild THEN msg.settings ELSE generator
     IN /\ generator' = gen
        /\ lastSettings' = (IF rebuild THEN msg.settings ELSE lastSettings)
        /\ workerOutbox' = Append(workerOutbox,
             [coordinate |-> msg.coordinate, terrain |-> TerrainOf(gen, msg.coordinate)])
  /\ workerInbox' = Tail(workerInbox)

\* the worker handles a message while the main thread is idle
WorkerStep ==
  /\ onmessage
  /\ UNCHANGED <<settings, cmVars, lastUpdate, coordVars, playerPos, pending, resets>>

\* ------------------------------------------------------------------------
\* WorldManager
\* ------------------------------------------------------------------------
\* renderDistance * renderDistance
requiredChunkCount(st) == st.renderDistance * st.renderDistance

\* a guard that forgets the loading set
ShouldRequestUnlessData(key, terrainData, loading) ==
  key \notin DOMAIN terrainData

\* the guard in front of requestChunk
ShouldRequest(key, terrainData, loading) ==
  key \notin DOMAIN terrainData /\ key \notin loading

\* the coordinates of chunksToLoad a pass requests
ToRequest(chunksToLoad, terrainData, loading) ==
  LET ok(c) == ShouldRequest(chunkKey(c), terrainData, loading)
  IN SelectSeq(chunksToLoad, ok)

\* the loading set after the unload loop of a frame pass
LoadingAfterUnload(loading, chunksToUnload) == loading \ chunksToUnload

\* an unload loop that leaves the TerrainData map alone
TerrainDataAfterUnloadKept(terrainData, chunksToUnload) == terrainData

\* the TerrainData map after the unload loop of a frame pass
TerrainDataAfterUnload(terrainData, chunksToUnload) == Without(terrainData, chunksToUnload)

\* the messages in flight once a pass has posted n more requests stay within
\* the bound of the model
RoomFor(n) == Len(workerInbox) + Len(workerOutbox) + n <= MaxInFlight

\* the spawn effect: runs once, when isInitialized has become true
SpawnEffect ==
  /\ ~isInitialized
  /\ isInitialized' = TRUE
  /\ LET upd == updatePlayerPosition(cmSettings, playerChunk, loadedChunks,
                                     [x |-> 0, z |-> 0])
         reqs == ToRequest(upd.chunksToLoad, chunkTerrainData, loadingChunks)
     IN /\ playerChunk' = upd.playerChunk
        /\ visibleChunks' = upd.visibleChunks
        /\ loadingChunks' = loadingChunks \cup KeysOf(reqs)
        /\ pending' = PendingAfter(pending, reqs)
        /\ workerInbox' = workerInbox \o RequestsFor(reqs, settings)
        /\ RoomFor(Len(reqs))
  /\ UNCHANGED <<settings, cmSettings, loadedChunks, lastUpdate, chunkTerrainData,
                 loadedChunkCoords, ready, playerPos, workerOutbox, generator,
                 lastSettings, resets>>

\* one pass of the useFrame callback
useFrame ==
  /\ isInitialized
  /\ playerPos # None
  /\ LET upd == updatePlayerPosition(cmSettings, playerChunk, loadedChunks, playerPos)
         reqs == ToRequest(upd.chunksToLoad, chunkTerrainData, loadingChunks)
     IN /\ RoomFor(Len(reqs))
        /\ playerChunk' = upd.playerChunk
        /\ visibleChunks' = upd.visibleChunks
        /\ pending' = PendingAfter(pending, reqs)
        /\ workerInbox' = workerInbox \o RequestsFor(reqs, settings)
        /\ loadedChunks' = Without(loadedChunks, upd.chunksToUnload)
        /\ chunkTerrainData' = TerrainDataAfterUnload(chunkTerrainData, upd.chunksToUnload)
        /\ loadingChunks' =
             LoadingAfterUnload(loadingChunks \cup KeysOf(reqs), upd.chunksToUnload)
        /\ loadedChunkCoords' = loadedChunkCoords \ upd.chunksToUnload
  /\ UNCHANGED <<settings, cmSettings, ready, isInitialized, playerPos,
                 workerOutbox, generator, lastSettings, resets>>

\* a frame pass of the streaming system
Frame == useFrame /\ UNCHANGED lastUpdate

\* whether the continuation of requestChunk installs an arriving result
InstallsResult(key, pend) == key \in DOMAIN pend

\* worker.onmessage on the main thread, followed by the continuation of the
\* resolved promise
onResponse ==
  /\ workerOutbox # <<>>
  /\ LET msg == Head(workerOutbox)
         key == chunkKey(msg.coordinate)
     IN IF InstallsResult(key, pending)
        THEN /\ pending' = Without(pending, {key})
             /\ chunkTerrainData' = MapSet(chunkTerrainData, key, msg.terrain)
             /\ loadingChunks' = loadingChunks \ {key}
             /\ loadedChunks' = generateChunk(cmSettings, loadedChunks, msg.coordinate)
        ELSE /\ UNCHANGED <<pending, chunkTerrainData, loadingChunks, loadedChunks>>
  /\ workerOutbox' = Tail(workerOutbox)
  /\ UNCHANGED <<settings, cmSettings, playerChunk, visibleChunks,
                 loadedChunkCoords, ready, isInitialized, playerPos, workerInbox,
                 generator, lastSettings, resets>>

\* a response of the worker arrives
Deliver == onResponse /\ UNCHANGED lastUpdate


\* a reset that leaves the loading set alone
ResetLoadingKept(loading) == loading

\* loadingChunks.current.clear() of the settings-reset effect
ResetLoading(loading) == {}

\* a change of a terrain setting: WorldManager renders with the new
\* settings, useTerrainWorker's effect replaces the worker when one of its
\* dependencies changed, and the settings-reset effect runs
SettingsChange(newSettings) ==
  /\ isInitialized
  /\ newSettings # settings
  /\ resets < MaxResets
  /\ settings' = newSettings
  /\ cmSettings' = newSettings
  /\ playerChunk' = [x |-> 0, z |-> 0]
  /\ loadedChunks' = EmptyMap
  /\ visibleChunks' = {}
  /\ chunkTerrainData' = EmptyMap
  /\ loadingChunks' = ResetLoading(loadingChunks)
  /\ loadedChunkCoords' = {}
  /\ ready' = FALSE
  /\ IF WorkerRestarts(settings, newSettings)
     THEN /\ workerInbox' = <<>>
          /\ workerOutbox' = <<>>
          /\ generator' = None
          /\ lastSettings' = None
     ELSE UNCHANGED workerVars
  /\ resets' = resets + 1
  /\ UNCHANGED <<lastUpdate, isInitialized, playerPos, pending>>

\* the resident chunks whose TerrainChunk reports loaded in the next commit
Unreported(table, terrainData) ==
  {k \in DOMAIN table : k \in DOMAIN terrainData /\ ~table[k].isLoaded}

\* the test of handleChunkLoaded for invoking onReady
ReadyNow(isReady, coords, st) ==
  ~isReady /\ Cardinality(coords) >= requiredChunkCount(st)

\* where App mounts the player after onReady
SpawnPosition(st) == [x |-> st.chunkSize \div 2, z |-> st.chunkSize \div 2]

\* a commit of WorldManager's render: the onLoaded effect of every
\* TerrainChunk whose chunk is not yet loaded marks it loaded and calls
\* handleChunkLoaded; onReady makes App mount the player
onLoadedEffects ==
  /\ Unreported(loadedChunks, chunkTerrainData) # {}
  /\ LET new == Unreported(loadedChunks, chunkTerrainData)
         coords == loadedChunkCoords \cup new
         fires == ReadyNow(ready, coords, settings)
     IN /\ loadedChunks' =
             [k \in DOMAIN loadedChunks |->
                IF k \in new THEN [loadedChunks[k] EXCEPT !.isLoaded = TRUE]
                ELSE loadedChunks[k]]
        /\ loadedChunkCoords' = coords
        /\ ready' = (ready \/ fires)
        /\ playerPos' = (IF fires /\ playerPos = None THEN SpawnPosition(settings)
                         ELSE playerPos)
  /\ UNCHANGED <<settings, cmSettings, playerChunk, visibleChunks,
                 chunkTerrainData, loadingChunks, isInitialized, pending, workerVars,
                 resets>>

\* a commit of WorldManager's render
Commit == onLoadedEffects /\ UNCHANGED lastUpdate

\* the positions the observer visits
Positions ==
  {[x |-> c * ChunkSize + ChunkSize \div 2, z |-> ChunkSize \div 2] :
     c \in (-MaxChunk)..MaxChunk}

\* the player moves between two frames
Move(pos) ==
  /\ playerPos # None
  /\ pos # playerPos
  /\ playerPos' = pos
  /\ UNCHANGED <<settings, cmVars, lastUpdate, coordVars, pending, workerVars, resets>>

\* ------------------------------------------------------------------------
\* Specification of the streaming system
\* ------------------------------------------------------------------------
\* the state after WorldManager's first commit: worker created, ChunkManager
\* constructed, all tables empty, isInitialized not yet rendered
Init ==
  /\ settings = InitialSettings
  /\ cmSettings = InitialSettings
  /\ playerChunk = [x |-> 0, z |-> 0]
  /\ loadedChunks = EmptyMap
  /\ visibleChunks = {}
  /\ lastUpdate = None
  /\ chunkTerrainData = EmptyMap
  /\ loadingChunks = {}
  /\ loadedChunkCoords = {}
  /\ ready = FALSE
  /\ isInitialized = FALSE
  /\ playerPos = None
  /\ pending = EmptyMap
  /\ workerInbox = <<>>
  /\ workerOutbox = <<>>
  /\ generator = None
  /\ lastSettings = None
  /\ resets = 0

Next ==
  \/ SpawnEffect
  \/ Frame
  \/ WorkerStep
  \/ Deliver
  \/ Commit
  \/ \E pos \in Positions : Move(pos)
  \/ \E newSettings \in SettingsSet : SettingsChange(newSettings)

Spec == Init /\ [][Next]_vars

\* the streaming system under settings that never change
FixedNext ==
  \/ SpawnEffect
  \/ Frame
  \/ WorkerStep
  \/ Deliver
  \/ Commit
  \/ \E pos \in Positions : Move(pos)

FixedSpec == Init /\ [][FixedNext]_vars

\* the player walks on, away from the spawn position: an observer that only
\* walks on comes to rest
WalkOn(pos) ==
  /\ playerPos # None
  /\ Abs(pos.x - SpawnPosition(settings).x) > Abs(playerPos.x - SpawnPosition(settings).x)
  /\ Move(pos)

\* the streaming system with an observer that comes to rest: every animation
\* frame runs the frame callback, the worker handles every message it is
\* sent, the event loop delivers every response and React commits every
\* render
RestNext ==
  \/ SpawnEffect
  \/ Frame
  \/ WorkerStep
  \/ Deliver
  \/ Commit
  \/ \E pos \in Positions : WalkOn(pos)
  \/ \E newSettings \in SettingsSet : SettingsChange(newSettings)

FairSpec ==
  /\ Init
  /\ [][RestNext]_vars
  /\ WF_vars(SpawnEffect)
  /\ WF_vars(Frame)
  /\ WF_vars(WorkerStep)
  /\ WF_vars(Deliver)
  /\ WF_vars(Commit)


\* ------------------------------------------------------------------------
\* Specification of a ChunkManager driven through its public methods
\* ------------------------------------------------------------------------
\* the coordinates generateChunk is called with: the observer's row of chunks
\* and the rows beyond it
CMCoords == {[x |-> cx, z |-> cz] : cx \in (-MaxChunk)..MaxChunk, cz \in 0..MaxChunk}

\* world positions on both edges of every chunk of the observer's row,
\* negative ones included
CMPositions ==
  {[x |-> cx * ChunkSize + ox, z |-> ChunkSize \div 2] :
     cx \in (-MaxChunk)..MaxChunk, ox \in {0, ChunkSize - 1}}

CMSettingsSet == {MakeSettings("enhanced_world", 15, rd) : rd \in 1..MaxRenderDistance}

\* new ChunkManager(settings)
CMInit ==
  /\ cmSettings \in CMSettingsSet
  /\ settings = cmSettings
  /\ playerChunk = [x |-> 0, z |-> 0]
  /\ loadedChunks = EmptyMap
  /\ visibleChunks = {}
  /\ lastUpdate = None
  /\ chunkTerrainData = EmptyMap
  /\ loadingChunks = {}
  /\ loadedChunkCoords = {}
  /\ ready = FALSE
  /\ isInitialized = FALSE
  /\ playerPos = None
  /\ pending = EmptyMap
  /\ workerInbox = <<>>
  /\ workerOutbox = <<>>
  /\ generator = None
  /\ lastSettings = None
  /\ resets = 0

notCM == <<settings, coordVars, playerPos, pending, workerVars, resets>>

\* chunkManager.updatePlayerPosition(worldPosition)
CMUpdatePlayerPosition(worldPosition) ==
  /\ LET upd == updatePlayerPosition(cmSettings, playerChunk, loadedChunks, worldPosition)
     IN /\ playerChunk' = upd.playerChunk
        /\ visibleChunks' = upd.visibleChunks
        /\ loadedChunks' = upd.loadedChunks
        /\ lastUpdate' = [worldPosition |-> worldPosition,
                          residentBefore |-> DOMAIN loadedChunks,
                          chunksToLoad |-> upd.chunksToLoad,
                          chunksToUnload |-> upd.chunksToUnload]
  /\ UNCHANGED <<cmSettings, notCM>>

\* chunkManager.generateChunk(coordinate)
CMGenerateChunk(coordinate) ==
  /\ Cardinality(DOMAIN loadedChunks \cup {chunkKey(coordinate)}) <= MaxResident
  /\ loadedChunks' = generateChunk(cmSettings, loadedChunks, coordinate)
  /\ lastUpdate' = None
  /\ UNCHANGED <<cmSettings, playerChunk, visibleChunks, notCM>>

\* chunkManager.unloadChunk(key)
CMUnloadChunk(key) ==
  /\ loadedChunks' = unloadChunk(loadedChunks, key)
  /\ lastUpdate' = None
  /\ UNCHANGED <<cmSettings, playerChunk, visibleChunks, notCM>>

CMNext ==
  \/ \E worldPosition \in CMPositions : CMUpdatePlayerPosition(worldPosition)
  \/ \E coordinate \in CMCoords : CMGenerateChunk(coordinate)
  \/ \E key \in DOMAIN loadedChunks : CMUnloadChunk(key)

CMSpec == CMInit /\ [][CMNext]_vars

\* ------------------------------------------------------------------------
\* Specification of the worker behind useTerrainWorker, driven through
\* requestChunk
\* ------------------------------------------------------------------------
\* number of times the hook is rendered with other settings
MaxSettingsChanges == 3

\* the coordinates requestChunk is called with
WCoords == {[x |-> cx, z |-> 0] : cx \in 0..1}

\* what the worker has generated so far: the settings and coordinate of each
\* request it handled, with the terrain it returned
Generated == IF lastUpdate = None THEN {} ELSE lastUpdate.generated

\* requestChunk(coordinate) under the settings of the latest render
WRequestChunk(coordinate) ==
  /\ RoomFor(1)
  /\ pending' = PendingAfter(pending, <<coordinate>>)
  /\ workerInbox' = workerInbox \o RequestsFor(<<coordinate>>, settings)
  /\ UNCHANGED <<settings, cmVars, lastUpdate, coordVars, playerPos, workerOutbox,
                 generator, lastSettings, resets>>

\* the worker handles a message; the request and its result are recorded
WOnMessage ==
  /\ onmessage
  /\ lastUpdate' =
       [generated |-> Generated \cup
          {[settings |-> Head(workerInbox).settings,
            coordinate |-> Head(workerInbox).coordinate,
            terrain |-> workerOutbox'[Len(workerOutbox')].terrain]}]
  /\ UNCHANGED <<settings, cmVars, coordVars, playerPos, pending, resets>>

\* workerRef.current.onmessage: the resolver of the key, if any, is removed
\* from pending and called
WReceive ==
  /\ workerOutbox # <<>>
  /\ pending' = Without(pending, {chunkKey(Head(workerOutbox).coordinate)})
  /\ workerOutbox' = Tail(workerOutbox)
  /\ UNCHANGED <<settings, cmVars, lastUpdate, coordVars, playerPos, workerInbox,
                 generator, lastSettings, resets>>

\* the hook is rendered with other settings: its effect replaces the worker
\* when seed, chunkSize or renderDistance changed
WRender(newSettings) ==
  /\ newSettings # settings
  /\ resets < MaxSettingsChanges
  /\ settings' = newSettings
  /\ IF WorkerRestarts(settings, newSettings)
     THEN /\ workerInbox' = <<>>
          /\ workerOutbox' = <<>>
          /\ generator' = None
          /\ lastSettings' = None
     ELSE UNCHANGED workerVars
  /\ resets' = resets + 1
  /\ UNCHANGED <<cmVars, lastUpdate, coordVars, playerPos, pending>>

WNext ==
  \/ \E coordinate \in WCoords : WRequestChunk(coordinate)
  \/ WOnMessage
  \/ WReceive
  \/ \E newSettings \in SettingsSet : WRender(newSettings)

WorkerSpec == Init /\ [][WNext]_vars

\* ------------------------------------------------------------------------
\* Specification of a WorldGenerator whose chunks are installed, mounted and
\* sampled
\* ------------------------------------------------------------------------
\* meshResolution of the generators: powers of two, so that every sample
\* point is computed without rounding
MeshResolutions == {2, 4}

GenSettingsSet ==
  {GeneratorSettings(seed, meshResolution, 15, 80, 25, 4) :
     seed \in {"enhanced_world", "other_seed"}, meshResolution \in MeshResolutions}

\* number of chunks that are generated for one generator
MaxGenerated == 2

\* the coordinates chunks are generated for
GenCoords == {[x |-> cx, z |-> cz] : cx \in 0..1, cz \in 0..1}

\* world positions that are sampled: inside the chunks of the first row,
\* on their edges, and left and right of all of them
GenPositions ==
  {[x |-> cx * ChunkSize * One + ox * One, z |-> 20 * One] :
     cx \in (-1)..2, ox \in {0, 20, 40}}

GenInit ==
  /\ settings \in GenSettingsSet
  /\ cmSettings = settings
  /\ playerChunk = [x |-> 0, z |-> 0]
  /\ loadedChunks = EmptyMap
  /\ visibleChunks = {}
  /\ lastUpdate = None
  /\ chunkTerrainData = EmptyMap
  /\ loadingChunks = {}
  /\ loadedChunkCoords = {}
  /\ ready = FALSE
  /\ isInitialized = FALSE
  /\ playerPos = None
  /\ pending = EmptyMap
  /\ workerInbox = <<>>
  /\ workerOutbox = <<>>
  /\ generator = None
  /\ lastSettings = None
  /\ resets = 0

notGen == <<settings, cmSettings, playerChunk, visibleChunks, loadingChunks,
            loadedChunkCoords, ready, isInitialized, playerPos, pending, workerVars,
            resets>>

\* new WorldGenerator(settings).generateChunk(coordinate), the result
\* installed as the continuation of requestChunk installs it; chunks are
\* installed and mounted before the first sample is taken
GenGenerateChunk(coordinate) ==
  /\ lastUpdate = None
  /\ chunkKey(coordinate) \notin DOMAIN chunkTerrainData
  /\ Cardinality(DOMAIN chunkTerrainData) < MaxGenerated
  /\ chunkTerrainData' =
       MapSet(chunkTerrainData, chunkKey(coordinate),
              WorldGenerator_generateChunk(settings, SeededField(settings.seed), coordinate))
  /\ loadedChunks' = generateChunk(cmSettings, loadedChunks, coordinate)
  /\ lastUpdate' = None
  /\ UNCHANGED notGen

\* the onLoaded effect of a TerrainChunk: the chunk gets its mesh and is
\* marked loaded
GenMount(key) ==
  /\ lastUpdate = None
  /\ ~loadedChunks[key].isLoaded
  /\ loadedChunks' = [loadedChunks EXCEPT ![key].isLoaded = TRUE]
  /\ lastUpdate' = None
  /\ UNCHANGED <<chunkTerrainData, notGen>>

\* sampleTerrainHeightAt(chunk, terrain, worldX, worldZ) for a resident chunk
GenSample(key, pos) ==
  /\ lastUpdate' =
       [key |-> key, worldX |-> pos.x, worldZ |-> pos.z,
        result |-> sampleTerrainHeightAt(loadedChunks[key], chunkTerrainData[key],
                                         pos.x, pos.z)]
  /\ UNCHANGED <<loadedChunks, chunkTerrainData, notGen>>

GenNext ==
  \/ \E coordinate \in GenCoords : GenGenerateChunk(coordinate)
  \/ \E key \in DOMAIN loadedChunks : GenMount(key)
  \/ \E key \in DOMAIN loadedChunks : \E pos \in GenPositions : GenSample(key, pos)

GenSpec == GenInit /\ [][GenNext]_vars

\* ------------------------------------------------------------------------
\* Specification of the first load of a world: from the spawn effect to
\* onReady and the first frames
\* ------------------------------------------------------------------------
\* largest renderDistance a world is loaded with
MaxLoadRenderDistance == 4

\* the smallest renderDistance of the terrain controls
MinRenderDistance == 3

LoadSettingsSet ==
  {MakeSettings("enhanced_world", 15, rd) : rd \in MinRenderDistance..MaxLoadRenderDistance}

\* the chunk the spawn effect computes the required set around
SpawnChunk == [x |-> 0, z |-> 0]

\* the state the spawn effect leaves: every required coordinate around the
\* spawn point requested and loading
LoadInit ==
  /\ settings \in LoadSettingsSet
  /\ cmSettings = settings
  /\ LET upd == updatePlayerPosition(settings, SpawnChunk, EmptyMap, [x |-> 0, z |-> 0])
         reqs == ToRequest(upd.chunksToLoad, EmptyMap, {})
     IN /\ playerChunk = upd.playerChunk
        /\ visibleChunks = upd.visibleChunks
        /\ loadingChunks = KeysOf(reqs)
        /\ pending = PendingAfter(EmptyMap, reqs)
        /\ workerInbox = RequestsFor(reqs, settings)
  /\ loadedChunks = EmptyMap
  /\ lastUpdate = None
  /\ chunkTerrainData = EmptyMap
  /\ loadedChunkCoords = {}
  /\ ready = FALSE
  /\ isInitialized = TRUE
  /\ playerPos = None
  /\ workerOutbox = <<>>
  /\ generator = None
  /\ lastSettings = None
  /\ resets = 0

LoadNext ==
  \/ WorkerStep
  \/ Deliver
  \/ Commit
  \/ Frame

LoadSpec == LoadInit /\ [][LoadNext]_vars

\* ------------------------------------------------------------------------
\* Specification of one evaluation of the height function
\* ------------------------------------------------------------------------
\* the controls' defaults, and the smallest continent and detail amplitudes
\* with the largest mountain amplitude
HeightSettingsSet ==
  {GeneratorSettings("enhanced_world", 2, 15, 80, 25, 4),
   GeneratorSettings("enhanced_world", 2, 15, 20, 60, 1)}

\* the noise functions that decide a height; the two warp functions only
\* move the sample point
HeightLayers == {Layers[i] : i \in 1..Len(Layers)} \ {"warpX", "warpZ"}

\* the samples of the noise functions: every combination of values of the
\* ten height layers
NoiseSamples ==
  {[layer \in {Layers[i] : i \in 1..Len(Layers)} |->
      IF layer \in HeightLayers THEN values[layer] ELSE 0] :
     values \in [HeightLayers -> NoiseValues]}

HeightInit ==
  /\ settings \in HeightSettingsSet
  /\ cmSettings = settings
  /\ playerChunk = [x |-> 0, z |-> 0]
  /\ loadedChunks = EmptyMap
  /\ visibleChunks = {}
  /\ lastUpdate = None
  /\ chunkTerrainData = EmptyMap
  /\ loadingChunks = {}
  /\ loadedChunkCoords = {}
  /\ ready = FALSE
  /\ isInitialized = FALSE
  /\ playerPos = None
  /\ pending = EmptyMap
  /\ workerInbox = <<>>
  /\ workerOutbox = <<>>
  /\ generator = None
  /\ lastSettings = None
  /\ resets = 0

\* getHeightAt at a point where the noise functions take the given values
HeightGetHeightAt(values) ==
  /\ lastUpdate = None
  /\ lastUpdate' = [noise |-> values,
                    height |-> getHeightAt(settings, SampleField(values), 0, 0)]
  /\ UNCHANGED <<settings, cmVars, coordVars, playerPos, pending, workerVars, resets>>

\* the function is evaluated once: nothing follows the evaluation
HeightNext ==
  /\ lastUpdate = None
  /\ \E values \in NoiseSamples : HeightGetHeightAt(values)

HeightSpec == HeightInit /\ [][HeightNext]_vars

\* ------------------------------------------------------------------------
\* Specification of useTerrainWorker's promises in front of one worker
\* ------------------------------------------------------------------------
\* number of requestChunk calls in one behaviour
MaxPromises == 3

\* the promises requestChunk has returned so far, in call order: the
\* coordinate and settings of the call and the values its resolver was
\* called with
Promises == IF lastUpdate = None THEN <<>> ELSE lastUpdate.promises

\* the responses workerRef.current.onmessage was called with, in order
Received == IF lastUpdate = None THEN <<>> ELSE lastUpdate.received

\* the settings the hook is rendered with while its worker stays alive: they
\* differ in fields outside the effect's dependencies
AliveSettingsSet == {st \in SettingsSet : ~WorkerRestarts(InitialSettings, st)}

\* requestChunk(coordinate): a new promise whose resolver takes the place of
\* any resolver stored under the same key
PRequestChunk(coordinate) ==
  /\ Len(Promises) < MaxPromises
  /\ RoomFor(1)
  /\ pending' = MapSet(pending, chunkKey(coordinate), Len(Promises) + 1)
  /\ workerInbox' = workerInbox \o RequestsFor(<<coordinate>>, settings)
  /\ lastUpdate' = [promises |-> Append(Promises,
                       [coordinate |-> coordinate, settings |-> settings,
                        resolutions |-> <<>>]),
                    received |-> Received]
  /\ UNCHANGED <<settings, cmVars, coordVars, playerPos, workerOutbox,
                 generator, lastSettings, resets>>

\* workerRef.current.onmessage: the resolver stored under the key of the
\* response, if any, is deleted and called with the response
PReceive ==
  /\ workerOutbox # <<>>
  /\ LET msg == Head(workerOutbox)
         key == chunkKey(msg.coordinate)
     IN IF key \in DOMAIN pending
        THEN /\ pending' = Without(pending, {key})
             /\ lastUpdate' =
                  [promises |-> [Promises EXCEPT
                                   ![pending[key]].resolutions = Append(@, msg.terrain)],
                   received |-> Append(Received, msg)]
        ELSE /\ UNCHANGED pending
             /\ lastUpdate' = [promises |-> Promises,
                               received |-> Append(Received, msg)]
  /\ workerOutbox' = Tail(workerOutbox)
  /\ UNCHANGED <<settings, cmVars, coordVars, playerPos, workerInbox,
                 generator, lastSettings, resets>>

\* the hook is rendered with settings that leave the effect's dependencies
\* as they are: the worker and the pending map stay
PRender(newSettings) ==
  /\ newSettings # settings
  /\ ~WorkerRestarts(settings, newSettings)
  /\ resets < MaxSettingsChanges
  /\ settings' = newSettings
  /\ resets' = resets + 1
  /\ UNCHANGED <<cmVars, lastUpdate, coordVars, playerPos, pending, workerVars>>

PNext ==
  \/ \E coordinate \in WCoords : PRequestChunk(coordinate)
  \/ WorkerStep
  \/ PReceive
  \/ \E newSettings \in AliveSettingsSet : PRender(newSettings)

PromiseSpec == Init /\ [][PNext]_vars

\* ------------------------------------------------------------------------
\* Specification of terrain lookups at the observer's position
\* ------------------------------------------------------------------------
\* the positions the observer stops at: the low edge of chunks -1, 0 and 1
\* (exact multiples of the chunk edge length) and the last position before
\* the low edge of chunks 0 and 1
LookupPositions ==
  {[x |-> wx, z |-> ChunkSize \div 2] :
     wx \in {-ChunkSize, -1, 0, ChunkSize - 1, ChunkSize}}

\* getTerrainDataAt(worldX, worldZ) at the observer's position, through the
\* ref of WorldManager
LookupGetTerrainDataAt ==
  /\ isInitialized
  /\ playerPos # None
  /\ lastUpdate' =
       [worldPosition |-> playerPos,
        result |-> getTerrainDataAt(settings, loadedChunks, chunkTerrainData,
                                    playerPos.x * One, playerPos.z * One)]
  /\ UNCHANGED <<settings, cmVars, coordVars, playerPos, pending, workerVars, resets>>

\* the streaming system with an observer that stops on both edges of every
\* chunk of its row and looks the terrain up where it stands
LookupNext ==
  \/ SpawnEffect
  \/ Frame
  \/ WorkerStep
  \/ Deliver
  \/ Commit
  \/ \E pos \in LookupPositions : Move(pos)
  \/ LookupGetTerrainDataAt

LookupSpec == Init /\ [][LookupNext]_vars

\* ------------------------------------------------------------------------
\* Specification of one evaluation of the valley mask
\* ------------------------------------------------------------------------
\* the noise functions the valley mask depends on
ValleyLayers == {"continent", "mountain", "ridge", "erosion", "detail"}

\* the samples of the noise functions: every combination of values of the
\* layers the valley mask depends on
ValleyNoiseSamples ==
  {[layer \in {Layers[i] : i \in 1..Len(Layers)} |->
      IF layer \in ValleyLayers THEN values[layer] ELSE 0] :
     values \in [ValleyLayers -> NoiseValues]}

\* steps 1, 3 and 6 of getHeightAt at a point where the noise functions take
\* the given values: the continental base, the masked mountains and the
\* valley mask computed from them
ValleyGetHeightAt(values) ==
  /\ lastUpdate = None
  /\ \E continent \in {continentBase(settings, SampleField(values), 0, 0)} :
       \E mountains \in {maskedMountains(settings, SampleField(values), 0, 0, continent)} :
         lastUpdate' = [noise |-> values, continent |-> continent,
                        mountains |-> mountains,
                        valleyMask |-> valleyMask(continent, mountains)]
  /\ UNCHANGED <<settings, cmVars, coordVars, playerPos, pending, workerVars, resets>>

ValleyNext ==
  /\ lastUpdate = None
  /\ \E values \in ValleyNoiseSamples : ValleyGetHeightAt(values)

ValleySpec == HeightInit /\ [][ValleyNext]_vars

\* ------------------------------------------------------------------------
\* Specification of one call of fractal
\* ------------------------------------------------------------------------
\* largest octave count of a call
MaxOctaves == 3

\* the scale of each octave for scale 0.001 and lacunarity 2.0
FractalScales == [i \in 1..(MaxOctaves + 1) |-> 10 * 2 ^ (i - 1)]

\* amplitude arguments: the underwater base (-35), the micro details for
\* detailAmplitude 1 (1 * 1.2 * 0.3), the warp for warpStrength 1 (1 * 0.8),
\* 1, and the plateau base (18)
FractalAmplitudes == {-35 * One, 360, 800, One, 18 * One}

\* the noise function that takes values[i] at the scale of octave i
FractalField(octaves, values) ==
  OctaveField([scale \in {FractalScales[i] : i \in 1..octaves} |->
                 values[CHOOSE i \in 1..octaves : FractalScales[i] = scale]])

\* fractal(x, z, noiseFunc, octaves, 0.001, amplitude, 0.5, 2.0)
FractalCall(octaves, amplitude, values) ==
  /\ lastUpdate = None
  /\ lastUpdate' =
       [octaves |-> octaves, amplitude |-> amplitude, noise |-> values,
        result |-> fractal(FractalField(octaves, values), 0, 0, "detail", octaves,
                           FractalScales[1], amplitude, 50, 20)]
  /\ UNCHANGED <<settings, cmVars, coordVars, playerPos, pending, workerVars, resets>>

FractalNext ==
  /\ lastUpdate = None
  /\ \E octaves \in 1..MaxOctaves, amplitude \in FractalAmplitudes :
       \E values \in [1..octaves -> NoiseValues] :
         FractalCall(octaves, amplitude, values)

FractalSpec == HeightInit /\ [][FractalNext]_vars

\* ------------------------------------------------------------------------
\* Specification of chunks regenerated under other generator settings
\* ------------------------------------------------------------------------
\* generator settings that share chunkSize and waterLevel and differ in seed,
\* in a noise-layer parameter (mountainAmplitude) or in meshResolution
ScatterSettingsSet ==
  {GeneratorSettings(seed, meshResolution, 15, 80, mountainAmplitude, 4) :
     seed \in {"enhanced_world", "other_seed"}, meshResolution \in MeshResolutions,
     mountainAmplitude \in {25, 60}}

ScatterInit ==
  /\ settings \in ScatterSettingsSet
  /\ cmSettings = settings
  /\ playerChunk = [x |-> 0, z |-> 0]
  /\ loadedChunks = EmptyMap
  /\ visibleChunks = {}
  /\ lastUpdate = None
  /\ chunkTerrainData = EmptyMap
  /\ loadingChunks = {}
  /\ loadedChunkCoords = {}
  /\ ready = FALSE
  /\ isInitialized = FALSE
  /\ playerPos = None
  /\ pending = EmptyMap
  /\ workerInbox = <<>>
  /\ workerOutbox = <<>>
  /\ generator = None
  /\ lastSettings = None
  /\ resets = 0

\* new WorldGenerator(settings).generateChunk(coordinate)
ScatterGenerateChunk(coordinate) ==
  /\ lastUpdate = None
  /\ chunkKey(coordinate) \notin DOMAIN chunkTerrainData
  /\ Cardinality(DOMAIN chunkTerrainData) < MaxGenerated
  /\ chunkTerrainData' =
       MapSet(chunkTerrainData, chunkKey(coordinate),
              WorldGenerator_generateChunk(settings, SeededField(settings.seed), coordinate))
  /\ UNCHANGED <<loadedChunks, lastUpdate, notGen>>

\* the settings change in seed or noise-layer parameters, not in
\* meshResolution, and every chunk is generated again; the chunks of the old
\* settings are kept for comparison
ScatterRegenerate(newSettings) ==
  /\ lastUpdate = None
  /\ chunkTerrainData # EmptyMap
  /\ newSettings # settings
  /\ newSettings.meshResolution = settings.meshResolution
  /\ settings' = newSettings
  /\ cmSettings' = newSettings
  /\ lastUpdate' = [settings |-> settings, terrain |-> chunkTerrainData]
  /\ chunkTerrainData' =
       [key \in DOMAIN chunkTerrainData |->
          WorldGenerator_generateChunk(newSettings, SeededField(newSettings.seed),
                                       [x |-> key[1], z |-> key[2]])]
  /\ UNCHANGED <<playerChunk, loadedChunks, visibleChunks, loadingChunks,
                 loadedChunkCoords, ready, isInitialized, playerPos, pending,
                 workerVars, resets>>

ScatterNext ==
  \/ \E coordinate \in GenCoords : ScatterGenerateChunk(coordinate)
  \/ \E newSettings \in ScatterSettingsSet : ScatterRegenerate(newSettings)

ScatterSpec == ScatterInit /\ [][ScatterNext]_vars

\* ------------------------------------------------------------------------
\* Properties
\* ------------------------------------------------------------------------
\* the required keys of the position of the last direct update
LastRequiredKeys ==
  KeysOf(getRequiredChunks(cmSettings, worldToChunk(cmSettings, lastUpdate.worldPosition)))

\* C1: on an empty resident table updatePlayerPosition returns as chunksToLoad
\* exactly R*R distinct coordinates, all within floor(R/2) of the player
\* chunk on both axes (an R-by-R square around the player chunk).
C1_SquareOfRenderDistance ==
  (lastUpdate # None /\ lastUpdate.residentBefore = {}) =>
    LET rd == cmSettings.renderDistance
        pc == worldToChunk(cmSettings, lastUpdate.worldPosition)
        load == lastUpdate.chunksToLoad
    IN /\ Len(load) = rd * rd
       /\ Cardinality(KeysOf(load)) = rd * rd
       /\ \A c \in SeqRange(load) :
            Abs(c.x - pc.x) <= rd \div 2 /\ Abs(c.z - pc.z) <= rd \div 2

\* C2: chunksToLoad is exactly the required coordinates without a resident
\* entry, chunksToUnload exactly the resident keys that are not required,
\* and no coordinate is in both.
C2_LoadUnloadDelta ==
  lastUpdate # None =>
    LET load == lastUpdate.chunksToLoad
    IN /\ KeysOf(load) = LastRequiredKeys \ lastUpdate.residentBefore
       /\ Len(load) = Cardinality(KeysOf(load))
       /\ lastUpdate.chunksToUnload = lastUpdate.residentBefore \ LastRequiredKeys
       /\ KeysOf(load) \cap lastUpdate.chunksToUnload = {}

\* an update that found a required chunk resident, one to load and one to unload
C2_Witness ==
  /\ lastUpdate # None
  /\ lastUpdate.chunksToLoad # <<>>
  /\ lastUpdate.chunksToUnload # {}
  /\ lastUpdate.residentBefore \cap LastRequiredKeys # {}


\* the messages in flight that are about a key
InFlightFor(key) ==
  Cardinality({i \in 1..Len(workerInbox) : chunkKey(workerInbox[i].coordinate) = key})
  + Cardinality({i \in 1..Len(workerOutbox) : chunkKey(workerOutbox[i].coordinate) = key})

InFlightKeys ==
  {chunkKey(workerInbox[i].coordinate) : i \in 1..Len(workerInbox)}
  \cup {chunkKey(workerOutbox[i].coordinate) : i \in 1..Len(workerOutbox)}

\* C3: under unchanged settings no request is issued for a coordinate that is
\* loading or has TerrainData, so every coordinate has at most one request
\* outstanding at the pipeline, and exactly the loading ones have one.
C3_OneOutstandingRequest ==
  /\ \A key \in InFlightKeys : InFlightFor(key) <= 1 /\ key \in loadingChunks
  /\ \A key \in loadingChunks : InFlightFor(key) = 1 /\ key \notin DOMAIN chunkTerrainData

\* a frame pass has requested the observer's chunk and the next pass finds
\* it still loading
C3_Witness ==
  /\ playerPos # None
  /\ chunkKey(worldToChunk(settings, playerPos)) \in loadingChunks
  /\ chunkKey(worldToChunk(settings, playerPos)) \in visibleChunks

\* the key of the response the main thread handles next
ArrivingKey == chunkKey(Head(workerOutbox).coordinate)

\* C4: a result that arrives for a coordinate outside the required set is
\* dropped: neither the TerrainData map nor the resident table gains an
\* entry for it.
C4_OrphanedResultDropped ==
  [][(Deliver /\ ArrivingKey \notin visibleChunks) =>
       /\ ArrivingKey \notin DOMAIN chunkTerrainData'
       /\ ArrivingKey \notin DOMAIN loadedChunks']_vars

\* C5: at the end of every frame pass no coordinate outside the required
\* set remains in the resident table, the TerrainData map, the loading set
\* or the loaded-coordinate set.
C5_NothingOutsideRequiredAfterFrame ==
  [][Frame =>
       /\ DOMAIN loadedChunks' \subseteq visibleChunks'
       /\ DOMAIN chunkTerrainData' \subseteq visibleChunks'
       /\ loadingChunks' \subseteq visibleChunks'
       /\ loadedChunkCoords' \subseteq visibleChunks']_vars

\* C6: a coordinate that enters the required set has a WorldChunk
\* with isLoaded = FALSE in the resident table at the end of that frame pass.
C6_RegisteredInSameFrame ==
  [][Frame =>
       \A key \in visibleChunks' \ visibleChunks :
         key \in DOMAIN loadedChunks' /\ ~loadedChunks'[key].isLoaded]_vars

\* the chunk the observer is in: the spawn chunk while no player is mounted
ObserverChunk ==
  IF playerPos = None THEN [x |-> 0, z |-> 0] ELSE worldToChunk(settings, playerPos)

\* every required coordinate around the observer is resident with TerrainData
AllRequiredResident ==
  \A key \in KeysOf(getRequiredChunks(settings, ObserverChunk)) :
    key \in DOMAIN loadedChunks /\ key \in DOMAIN chunkTerrainData

\* C7: after a settings change, with the worker answering every request,
\* every required coordinate around the observer eventually is resident with
\* TerrainData again.
C7_RegeneratesAfterSettingsChange == (resets > 0) ~> AllRequiredResident

\* C8: right after a settings change has been processed the resident table,
\* the TerrainData map, the loading set and the loaded-coordinate set are
\* empty and the world is not ready.
C8_ResetClearsEverything ==
  [][resets' # resets =>
       /\ loadedChunks' = EmptyMap
       /\ chunkTerrainData' = EmptyMap
       /\ loadingChunks' = {}
       /\ loadedChunkCoords' = {}
       /\ ~ready']_vars

\* a settings change cleared the tables while a request was outstanding
C8_Witness ==
  /\ resets > 0
  /\ DOMAIN loadedChunks = {}
  /\ DOMAIN chunkTerrainData = {}
  /\ loadingChunks = {}
  /\ loadedChunkCoords = {}
  /\ ~ready
  /\ DOMAIN pending # {}
  /\ workerInbox # <<>>

\* C9: every TerrainData entry in the coordinator's map was generated from
\* the settings currently in force.
C9_TerrainFromCurrentSettings ==
  \A key \in DOMAIN chunkTerrainData : chunkTerrainData[key].settings = settings

\* C10: the generator that produces a result was built from settings equal
\* to those of the request, for every request the worker handles.
C10_GeneratorMatchesRequest ==
  [][WorkerStep =>
       /\ generator' = Head(workerInbox).settings
       /\ workerOutbox'[Len(workerOutbox')].terrain.settings
            = Head(workerInbox).settings]_vars

\* the worker has rebuilt its generator for settings other than its first
C10_Witness ==
  /\ generator # None
  /\ generator # InitialSettings
  /\ resets > 0
  /\ workerOutbox # <<>>
  /\ lastSettings = generator

\* C11: the terrain the worker returns for a request is determined by the
\* request's settings and coordinate, whatever the worker handled before: any
\* two generations with equal settings and coordinate returned equal terrain.
C11_Deterministic ==
  \A a \in Generated : \A b \in Generated :
    (a.settings = b.settings /\ a.coordinate = b.coordinate) => a.terrain = b.terrain

\* the worker generated one coordinate under two settings that differ in a
\* field it does not restart for, and another coordinate in between
C11_Witness ==
  \E a \in Generated : \E b \in Generated : \E c \in Generated :
    /\ a.coordinate = b.coordinate
    /\ c.coordinate # a.coordinate
    /\ a.settings # b.settings
    /\ ~WorkerRestarts(a.settings, b.settings)
    /\ generator # None

\* vertex (x, z) of a TerrainData generated at meshResolution m: its local
\* position, height and normal
VertexAt(terrain, m, x, z) ==
  LET v == z * (m + 1) + x
  IN [px |-> terrain.vertices[3 * v + 1], h |-> terrain.vertices[3 * v + 2],
      pz |-> terrain.vertices[3 * v + 3],
      normal |-> <<terrain.normals[3 * v + 1], terrain.normals[3 * v + 2],
                   terrain.normals[3 * v + 3]>>]

\* the pairs of resident chunks that share an edge along x, and along z
NeighboursX ==
  {p \in (DOMAIN chunkTerrainData) \X (DOMAIN chunkTerrainData) :
     p[2] = <<p[1][1] + 1, p[1][2]>>}
NeighboursZ ==
  {p \in (DOMAIN chunkTerrainData) \X (DOMAIN chunkTerrainData) :
     p[2] = <<p[1][1], p[1][2] + 1>>}

\* C12: on the edge two adjacent chunks share, the vertices of both chunks
\* have the same world sample point and the same height, in every row (and
\* column, for neighbours along z).
C12_SeamContinuity ==
  LET m == settings.meshResolution
      c == settings.chunkSize * One
  IN /\ \A p \in NeighboursX : \A j \in 0..m :
          LET a == VertexAt(chunkTerrainData[p[1]], m, m, j)
              b == VertexAt(chunkTerrainData[p[2]], m, 0, j)
          IN /\ p[1][1] * c + a.px = p[2][1] * c + b.px
             /\ a.pz = b.pz
             /\ a.h = b.h
     /\ \A p \in NeighboursZ : \A i \in 0..m :
          LET a == VertexAt(chunkTerrainData[p[1]], m, i, m)
              b == VertexAt(chunkTerrainData[p[2]], m, i, 0)
          IN /\ p[1][2] * c + a.pz = p[2][2] * c + b.pz
             /\ a.px = b.px
             /\ a.h = b.h

\* two chunks adjacent along x are resident, and the heights along their
\* shared edge are not all the same
C12_Witness ==
  /\ NeighboursX # {}
  /\ \E p \in NeighboursX : \E j \in 0..settings.meshResolution :
       VertexAt(chunkTerrainData[p[1]], settings.meshResolution, settings.meshResolution, j).h
         # VertexAt(chunkTerrainData[p[1]], settings.meshResolution, settings.meshResolution, 0).h

InFootprint(key, worldX, worldZ) ==
  LET position == loadedChunks[key].position
      c == cmSettings.chunkSize
  IN /\ position.x * One <= worldX /\ worldX < (position.x + c) * One
     /\ position.z * One <= worldZ /\ worldZ < (position.z + c) * One

\* C14: sampleTerrainHeightAt, called for a resident chunk with world
\* coordinates outside the footprint of every resident chunk, returns null.
C14_NullOutsideFootprint ==
  (/\ lastUpdate # None
   /\ \A key \in DOMAIN loadedChunks :
        ~InFootprint(key, lastUpdate.worldX, lastUpdate.worldZ))
    => lastUpdate.result = None

\* C15: for world coordinates inside the chunk's footprint
\* sampleTerrainHeightAt returns the height of the vertex at column
\* round(localX / cell) and row round(localZ / cell), cell being
\* chunkSize / meshResolution, whether or not the chunk has its mesh.
C15_NearestVertex ==
  (lastUpdate # None /\ InFootprint(lastUpdate.key, lastUpdate.worldX, lastUpdate.worldZ))
    => LET chunk == loadedChunks[lastUpdate.key]
           m == settings.meshResolution
           cell == (settings.chunkSize * One) \div m
           localX == lastUpdate.worldX - chunk.position.x * One
           localZ == lastUpdate.worldZ - chunk.position.z * One
       IN lastUpdate.result =
            Number(VertexAt(chunkTerrainData[lastUpdate.key], m,
                     round((localX * One) \div cell), round((localZ * One) \div cell)).h)

\* every coordinate of the required set around the spawn point has a loaded
\* chunk
SpawnAreaLoaded(table, st) ==
  \A key \in KeysOf(getRequiredChunks(st, SpawnChunk)) :
    key \in DOMAIN table /\ table[key].isLoaded

\* C16: onReady is invoked only in states where every coordinate of the
\* required set around the spawn point has a loaded chunk.
C16_ReadyMeansSpawnAreaLoaded ==
  [][(~ready /\ ready') => SpawnAreaLoaded(loadedChunks', settings')]_vars

\* the coordinate of a key
CoordOf(key) == [x |-> key[1], z |-> key[2]]

\* the terrain height under scatter candidate i of a chunk, read from the
\* chunk's height samples, and the candidate's second random draw
CandidateHeight(terrain, st, coordinate, i) ==
  LET rx == 5 + (seededRandom(prngSeed(coordinate) + i * 10) * (st.chunkSize - 10)) \div Million
      rz == 5 + (seededRandom(prngSeed(coordinate) + i * 10 + 1) * (st.chunkSize - 10)) \div Million
      gridX == (rx * st.meshResolution) \div st.chunkSize
      gridZ == (rz * st.meshResolution) \div st.chunkSize
  IN terrain.heights[gridZ * (st.meshResolution + 1) + gridX + 1]
SecondDraw(coordinate, i) == seededRandom(prngSeed(coordinate) + i * 10 + 2)

\* the candidates of a resident chunk that lie above waterLevel + 3
AcceptedCandidates(key) ==
  {i \in 0..7 :
     CandidateHeight(chunkTerrainData[key], settings, CoordOf(key), i)
       > (settings.waterLevel + 3) * One}

\* C17 as stated: every candidate above waterLevel + 3 yields exactly one
\* object, a cube or a ball, and every other candidate none, so cubes plus
\* balls is the number of accepted candidates.
C17_OneObjectPerAccepted ==
  \A key \in DOMAIN chunkTerrainData :
    Len(chunkTerrainData[key].cubes) + Len(chunkTerrainData[key].balls)
      = Cardinality(AcceptedCandidates(key))

\* C17 amended: a candidate above waterLevel + 3 yields a cube when its
\* second draw is above 0.5, a ball when it is above 0.3 and at most 0.5,
\* and nothing when it is at most 0.3; every other candidate yields nothing.
C17_AtMostOneObjectPerAccepted ==
  \A key \in DOMAIN chunkTerrainData :
    /\ Len(chunkTerrainData[key].cubes)
         = Cardinality({i \in AcceptedCandidates(key) :
                          SecondDraw(CoordOf(key), i) > Million \div 2})
    /\ Len(chunkTerrainData[key].balls)
         = Cardinality({i \in AcceptedCandidates(key) :
                          /\ SecondDraw(CoordOf(key), i) <= Million \div 2
                          /\ SecondDraw(CoordOf(key), i) > (3 * Million) \div 10})

\* a chunk with a cube, a ball, an accepted candidate that was given nothing
\* and a rejected candidate
C17_Witness ==
  \E key \in DOMAIN chunkTerrainData :
    /\ chunkTerrainData[key].cubes # <<>>
    /\ chunkTerrainData[key].balls # <<>>
    /\ \E i \in AcceptedCandidates(key) : SecondDraw(CoordOf(key), i) <= (3 * Million) \div 10
    /\ AcceptedCandidates(key) # 0..7

\* C18: the height getHeightAt returns stays within waterLevel plus or minus
\* the sum of the configured amplitudes, whatever values in [-1, 1] the noise
\* layers take.
C18_HeightWithinAmplitudes ==
  lastUpdate # None =>
    Abs(lastUpdate.height - settings.waterLevel * One)
      <= (settings.continentAmplitude + settings.mountainAmplitude
          + settings.detailAmplitude) * One

\* the state of a coordinate: resident once the resident table or the
\* TerrainData map holds it, loading while its key is in the loading set
TriState(key, loading, table, terrainData) ==
  IF key \in DOMAIN table \/ key \in DOMAIN terrainData THEN "resident"
  ELSE IF key \in loading THEN "loading"
  ELSE "absent"

AllowedTransitions ==
  {<<"absent", "loading">>, <<"loading", "resident">>,
   <<"loading", "absent">>, <<"resident", "absent">>}

TrackedKeys(loading, table, terrainData) ==
  loading \cup DOMAIN table \cup DOMAIN terrainData

\* C19: over frame passes, result arrivals and settings changes every
\* coordinate's state changes only along absent -> loading, loading ->
\* resident, loading -> absent or resident -> absent; no coordinate goes from
\* absent directly to resident.
C19_TriStateTransitions ==
  [][\A key \in TrackedKeys(loadingChunks, loadedChunks, chunkTerrainData)
              \cup TrackedKeys(loadingChunks', loadedChunks', chunkTerrainData') :
       LET before == TriState(key, loadingChunks, loadedChunks, chunkTerrainData)
           after == TriState(key, loadingChunks', loadedChunks', chunkTerrainData')
       IN before = after \/ <<before, after>> \in AllowedTransitions]_vars

\* a step that puts a result into the TerrainData map or the resident table
Installs ==
  \/ DOMAIN chunkTerrainData' \ DOMAIN chunkTerrainData # {}
  \/ DOMAIN loadedChunks' \ DOMAIN loadedChunks # {}

\* C20: results are installed into the TerrainData map and the resident
\* table only by a frame pass, as its last step, never between frame passes.
C20_InstalledOnlyInFramePass == [][Installs => Frame]_vars

\* C21: while the worker stays alive every promise returned by requestChunk
\* is resolved, exactly once, with the response computed for its request,
\* also when a second request for the same coordinate is made while the
\* first is outstanding. A promise is resolved only through its resolver in
\* the pending map, so an unresolved promise must still have its resolver
\* stored there.
C21_EveryPromiseResolvedOnce ==
  \A i \in 1..Len(Promises) :
    LET promise == Promises[i]
        key == chunkKey(promise.coordinate)
    IN /\ Len(promise.resolutions) <= 1
       /\ promise.resolutions # <<>> =>
            promise.resolutions[1] = TerrainOf(promise.settings, promise.coordinate)
       /\ promise.resolutions = <<>> => key \in DOMAIN pending /\ pending[key] = i

\* the request a response answers: its coordinate and the settings its
\* terrain was generated from
AnsweredRequest(msg) == [coordinate |-> msg.coordinate, settings |-> msg.terrain.settings]

\* the requests dispatched so far, in dispatch order
Dispatched == [i \in 1..Len(Promises) |->
                 [coordinate |-> Promises[i].coordinate, settings |-> Promises[i].settings]]

\* the requests answered so far, in the order their responses were or will
\* be delivered, followed by the requests the worker has not handled yet
InDeliveryOrder ==
  [i \in 1..Len(Received) |-> AnsweredRequest(Received[i])]
    \o [i \in 1..Len(workerOutbox) |-> AnsweredRequest(workerOutbox[i])]
    \o workerInbox

\* C22: within one worker instance the requests are handled one at a time
\* and the responses are posted and delivered in the order the requests were
\* dispatched.
C22_ResponsesInDispatchOrder == InDeliveryOrder = Dispatched

\* two requests with different contents were dispatched and both responses
\* have been delivered
C22_Witness ==
  /\ Len(Received) >= 2
  /\ AnsweredRequest(Received[1]) # AnsweredRequest(Received[2])

\* C23: updatePlayerPosition never adds, removes or replaces an entry of the
\* resident chunk table; it changes only the stored player chunk and the
\* visible set, and after the call the visible set is the required set of
\* the given position.
C23_UpdateLeavesResidentTable ==
  [][lastUpdate' # None =>
       /\ loadedChunks' = loadedChunks
       /\ cmSettings' = cmSettings
       /\ playerChunk' = worldToChunk(cmSettings, lastUpdate'.worldPosition)
       /\ visibleChunks' =
            KeysOf(getRequiredChunks(cmSettings,
                     worldToChunk(cmSettings, lastUpdate'.worldPosition)))]_vars

\* an update that reported a resident chunk for unloading and left it in
\* the table, with a visible set that differs from the table's keys
C23_Witness ==
  /\ lastUpdate # None
  /\ lastUpdate.chunksToUnload # {}
  /\ lastUpdate.chunksToUnload \subseteq DOMAIN loadedChunks
  /\ visibleChunks # DOMAIN loadedChunks

\* position p lies in the footprint of chunk coordinate c
InChunk(st, c, p) ==
  /\ c.x * st.chunkSize <= p.x /\ p.x < (c.x + 1) * st.chunkSize
  /\ c.z * st.chunkSize <= p.z /\ p.z < (c.z + 1) * st.chunkSize

\* C24: for every world position, negative coordinates and exact multiples
\* of the chunk edge length S included, the chunk coordinate c the
\* ChunkManager computes satisfies c*S <= p < (c+1)*S on each axis, and
\* getTerrainDataAt maps the same position to the same coordinate key.
C24_FloorDivisionAgrees ==
  [][/\ Frame => InChunk(cmSettings, playerChunk', playerPos)
     /\ (lastUpdate' # None /\ lastUpdate'.result # None) =>
          /\ lastUpdate'.result.chunk.coordinate
               = worldToChunk(cmSettings, lastUpdate'.worldPosition)
          /\ InChunk(cmSettings, lastUpdate'.result.chunk.coordinate,
                     lastUpdate'.worldPosition)]_vars

\* a lookup on the low edge of chunk (-1, 0), a negative exact multiple of
\* the chunk edge length, that found the chunk the ChunkManager stores as
\* the player chunk
C24_Witness ==
  /\ lastUpdate # None
  /\ lastUpdate.worldPosition.x = -ChunkSize
  /\ lastUpdate.result # None
  /\ lastUpdate.result.chunk.coordinate = playerChunk
  /\ playerPos = lastUpdate.worldPosition

\* mountain intensities below the one the smootherstep of the valley mask
\* saturates at
LowerIntensities == {0, 5 * One, 10 * One}

\* C25: the valley mask decreases as the masked mountain intensity increases
\* and is 0 where that intensity is high, so a point with strong mountains
\* receives no valley offset.
C25_NoValleysInsideMountains ==
  lastUpdate # None =>
    /\ Abs(lastUpdate.mountains) >= 15 * One => lastUpdate.valleyMask = 0
    /\ \A lower \in LowerIntensities :
         lower < Abs(lastUpdate.mountains) =>
           valleyMask(lastUpdate.continent, lower) >= lastUpdate.valleyMask

\* C26: for every octave count >= 1, every amplitude and every choice of
\* per-octave noise values in [-1, 1], the magnitude of the value fractal
\* returns is at most the absolute value of the amplitude argument.
C26_FractalWithinAmplitude ==
  lastUpdate # None => Abs(lastUpdate.result) <= Abs(lastUpdate.amplitude)

\* the scatter objects of a chunk without their height: position, kind and
\* size or radius
ScatterDraws(terrain) ==
  {[x |-> terrain.cubes[i].x, z |-> terrain.cubes[i].z, kind |-> "cube",
    size |-> terrain.cubes[i].size] : i \in 1..Len(terrain.cubes)}
  \cup
  {[x |-> terrain.balls[i].x, z |-> terrain.balls[i].z, kind |-> "ball",
    size |-> terrain.balls[i].radius] : i \in 1..Len(terrain.balls)}

\* the terrain height of the grid cell under an object position, read from
\* the chunk's height samples
HeightUnder(terrain, st, object) ==
  LET gridX == ((object.x \div One) * st.meshResolution) \div st.chunkSize
      gridZ == ((object.z \div One) * st.meshResolution) \div st.chunkSize
  IN terrain.heights[gridZ * (st.meshResolution + 1) + gridX + 1]

\* every object of one chunk is, with the same position, kind and size, an
\* object of the other chunk, or its place is rejected there by height
SameDrawsOrRejected(terrain, other, otherSettings) ==
  \A object \in ScatterDraws(terrain) :
    \/ object \in ScatterDraws(other)
    \/ HeightUnder(other, otherSettings, object) <= (otherSettings.waterLevel + 3) * One

\* C27: for two settings that differ in seed or noise-layer parameters and
\* share chunkSize and meshResolution, the scatter candidates of a chunk have
\* the same positions and the same kind and size draws; only acceptance by
\* height differs.
C27_ScatterIndependentOfSeed ==
  lastUpdate # None =>
    \A key \in DOMAIN chunkTerrainData :
      /\ SameDrawsOrRejected(lastUpdate.terrain[key], chunkTerrainData[key], settings)
      /\ SameDrawsOrRejected(chunkTerrainData[key], lastUpdate.terrain[key],
                             lastUpdate.settings)

\* a chunk regenerated under another seed whose heights changed, that kept
\* an object in place and lost or gained another by height
C27_Witness ==
  /\ lastUpdate # None
  /\ lastUpdate.settings.seed # settings.seed
  /\ \E key \in DOMAIN chunkTerrainData :
       /\ chunkTerrainData[key].heights # lastUpdate.terrain[key].heights
       /\ ScatterDraws(chunkTerrainData[key]) \cap ScatterDraws(lastUpdate.terrain[key]) # {}
       /\ ScatterDraws(chunkTerrainData[key]) # ScatterDraws(lastUpdate.terrain[key])

\* C28: between callbacks (frame pass, result arrival, settings reset) the
\* coordinates with an entry in the TerrainData map are the coordinates of
\* the resident chunk table, and no coordinate is both in the loading set and
\* in the TerrainData map.
C28_TablesAgree ==
  /\ DOMAIN chunkTerrainData = DOMAIN loadedChunks
  /\ loadingChunks \cap DOMAIN chunkTerrainData = {}

\* after a settings reset: a chunk resident in both tables while another
\* request is in flight
C28_Witness ==
  /\ resets > 0
  /\ DOMAIN chunkTerrainData # {}
  /\ DOMAIN chunkTerrainData = DOMAIN loadedChunks
  /\ loadingChunks # {}

(***************************************************************************)
(* Orphaned results and the frame pass that follows them.  lastUpdate      *)
(* keeps the chunks that the continuation of requestChunk installed        *)
(* outside the required set and that are still resident, and the ones of   *)
(* them that the last frame pass removed.                                  *)
(***************************************************************************)

\* the orphans still resident
Orphans == IF lastUpdate = None THEN {} ELSE lastUpdate.orphans

\* a response arrives; an installed result outside the required set is an orphan
EvictDeliver ==
  /\ onResponse
  /\ LET key == chunkKey(Head(workerOutbox).coordinate)
         orphaned == InstallsResult(key, pending) /\ key \notin visibleChunks
     IN lastUpdate' = [orphans |-> IF orphaned THEN Orphans \cup {key} ELSE Orphans,
                       evicted |-> {}]

\* a frame pass; the orphans it removes from the resident table are the evicted ones
EvictFrame ==
  /\ useFrame
  /\ lastUpdate' = [orphans |-> Orphans \cap DOMAIN loadedChunks',
                    evicted |-> Orphans \ DOMAIN loadedChunks']

EvictNext ==
  \/ SpawnEffect
  \/ EvictFrame
  \/ WorkerStep
  \/ EvictDeliver
  \/ Commit
  \/ \E pos \in Positions : Move(pos)

EvictSpec == Init /\ [][EvictNext]_vars

onReadyCalls(isReady, size, reports, st) ==
  IF isReady THEN 0
  ELSE Cardinality({i \in 1..reports : size + i >= requiredChunkCount(st)})

\* the calls of onReady so far
OnReadyCount == IF lastUpdate = None THEN 0 ELSE lastUpdate.onReady

\* a commit; its onLoaded effects call handleChunkLoaded once per new chunk
ReadyCommit ==
  /\ onLoadedEffects
  /\ LET new == Unreported(loadedChunks, chunkTerrainData) \ loadedChunkCoords
     IN lastUpdate' =
          [onReady |-> OnReadyCount +
             onReadyCalls(ready, Cardinality(loadedChunkCoords), Cardinality(new), settings)]

ReadyNext ==
  \/ WorkerStep
  \/ Deliver
  \/ ReadyCommit
  \/ Frame

ReadySpec == LoadInit /\ [][ReadyNext]_vars

\* C30: from the mount to the first settings reset WorldManager invokes
\* onReady at most once, also when several chunks report loaded in the same
\* commit and when more chunks load than renderDistance squared
C30_OnReadyAtMostOnce == OnReadyCount <= 1


====
